---- MODULE Spec2Model ----
(***************************************************************************)
(* A model of the financial-statement routines of the aksmes dashboard:    *)
(* the row lookup of get_financial_metrics and get_financial_ratios, the   *)
(* shape normalizer convert_em_to_sina_format, and the ROA/ROE loop of     *)
(* get_financial_ratios.                                                   *)
(*                                                                         *)
(* Text is modelled as a sequence of characters, so that Python's          *)
(* substring test (`in`, Series.str.contains), str.replace and slicing are *)
(* computed, not assumed.  A Chinese character is written as one token,    *)
(* its pinyin (with a tone digit where two characters share the pinyin):   *)
(*   jing U+51C0  li U+5229   run U+6DA6   ying U+8425  ye U+4E1A          *)
(*   shou U+6536  ru U+5165   zhu U+4E3B   wu U+52A1    zong U+603B        *)
(*   e U+989D     cheng U+6210 ben U+672C  zi U+8D44    chan U+4EA7        *)
(*   ji U+8BA1    fu U+8D1F   zhai U+503A  biao U+8868  liu U+6D41         *)
(*   dong4 U+52A8 suo U+6240  you U+6709   zhe U+8005   quan U+6743        *)
(*   yi U+76CA    he U+5408   he2 U+548C   gu U+80A1    dong1 U+4E1C       *)
(*   gui U+5F52   shu3 U+5C5E yu U+4E8E    mu3 U+6BCD   gong U+516C        *)
(*   si U+53F8    shang U+4E0A shi U+5E02  de U+7684    han U+542B         *)
(*   shao U+5C11  shu4 U+6570 sun U+635F   kou U+6263   chu U+9664         *)
(*   xiang U+9879 mu4 U+76EE  ke U+79D1    ri U+65E5    qi U+671F          *)
(*   bao U+62A5   gao U+544A  fei U+8D39   yong U+7528  ming U+540D         *)
(*   cheng2 U+79F0 nian U+5E74                                             *)
(* An ASCII character is its own token ("R", "2", "-", ",").               *)
(***************************************************************************)
EXTENDS Integers, Sequences, FiniteSets, TLC

VARIABLES
    \* ---- row lookup (get_financial_metrics, get_financial_ratios) ----
    is_labels,      \* item-label column of the income statement, as text
    bs_labels,      \* item-label column of the balance sheet, as text
    located,        \* the rows each function selected (0 = None)
    ran,            \* which lookups have run
    \* ---- convert_em_to_sina_format ----
    raw_df,         \* the raw table handed to the normalizer
    norm1,          \* convert_em_to_sina_format(raw_df)
    norm2,          \* convert_em_to_sina_format(norm1)
    npc,            \* "raw" -> "once" -> "twice"
    \* ---- get_financial_ratios ----
    balance_sheet,  \* the balance sheet passed in
    income_statement, \* the income statement passed in
    rpc,            \* position in get_financial_ratios
    rows,           \* asset_row / equity_row / profit_row (row numbers)
    common_dates,   \* periods still to be processed by the loop
    ratio_data,     \* the rows appended so far
    ratio_result,   \* what the function returned
    \* ---- get_financial_metrics and the app around it ----
    income_table,   \* the income statement handed to get_financial_metrics
    mpc,            \* "start" -> "returned" -> "shown"
    metrics_result, \* what get_financial_metrics returned, or what it raised
    financial_data, \* the frame plot_financial_metrics builds, with growth
    \* ---- get_financial_metrics (app_20250323155301) ----
    m155pc,         \* "start" -> "returned"
    metrics155_result, \* the frame the earlier version returns, or None
    \* ---- download_financial_reports and the cache directory ----
    program,        \* "app" or "script": which of the two downloads runs
    responses,      \* what the provider answers for each report type
    name_response,  \* what the provider answers for the stock's name
    dpc,            \* "start" -> "loop" -> "done"
    report_index,   \* the position of the loop in report_types
    successful_downloads,
    report_data,    \* the report types stored for the analysis
    download_result, \* what the download returned, and the count it showed
    cache_files,    \* the names of the files in data_dir
    \* ---- load_existing_reports ----
    current_date,   \* the day the running app was started, as YYYYMMDD
    cachepc,        \* "open" -> "loaded"
    loaded,         \* the files load_existing_reports read, or None
    \* ---- download_financial_reports_em ----
    em_source,      \* the position in the chain of sources of one statement
    em_calls,       \* the provider calls made so far, in their order
    em_tables,      \* the source whose answer is kept, per statement
    \* ---- the page of app_20250323223652 ----
    data_source,    \* the data source chosen in the sidebar
    apc,            \* "sidebar" -> "downloaded" -> "loaded" / "not found"
    app_result,     \* what the download function returned
    app_obtained,   \* the statements the download function obtained
    app_reports,    \* the files load_existing_reports read (<<>> = None)
    \* ---- the analysis script ----
    available_stocks, \* the (stock code, date) pairs list_available_stocks gave
    \* ---- realtime_stock_monitor ----
    is_running,     \* the checkbox "start monitoring", as the current run read it
    clear_data,     \* the button "clear history", as the current run read it
    price_history,  \* st.session_state.price_history: the samples' timestamps
    flow_history,   \* st.session_state.flow_history: the samples' timestamps
    now,            \* the clock, in update intervals
    updated_at,     \* the clock at the last update_historical_data (-1: none)
    clear_pressed_at, \* the clock when "clear history" was last pressed (-1)
    iterations_after_clear, \* iterations of the loop since that press
    \* ---- the page ----
    messages        \* the warnings and errors shown to the user

rowVars == <<is_labels, bs_labels, located, ran>>
normVars == <<raw_df, norm1, norm2, npc>>
ratioVars == <<balance_sheet, income_statement, rpc, rows, common_dates,
               ratio_data, ratio_result>>
metricVars == <<income_table, mpc, metrics_result, financial_data>>
metric155Vars == <<m155pc, metrics155_result>>
downloadVars == <<program, responses, name_response, dpc, report_index,
                  successful_downloads, report_data, download_result>>
cacheVars == <<current_date, cachepc, loaded>>
emVars == <<em_source, em_calls, em_tables>>
\* The parts added after the cache directory.
appVars == <<data_source, apc, app_result, app_obtained, app_reports>>
scriptVars == <<available_stocks>>
monitorVars == <<is_running, clear_data, price_history, flow_history, now,
                 updated_at, clear_pressed_at, iterations_after_clear>>
laterVars == <<emVars, appVars, scriptVars, monitorVars>>
vars == <<rowVars, normVars, ratioVars, metricVars, metric155Vars,
          downloadVars, cache_files, cacheVars, laterVars, messages>>

\* What the actions of one part leave alone.
exceptRows == <<normVars, ratioVars, metricVars, metric155Vars,
                downloadVars, cache_files, cacheVars, laterVars, messages>>
exceptNorm == <<rowVars, ratioVars, metricVars, metric155Vars,
                downloadVars, cache_files, cacheVars, laterVars, messages>>
exceptRatios == <<rowVars, normVars, metricVars, metric155Vars,
                  downloadVars, cache_files, cacheVars, laterVars>>
exceptMetrics == <<rowVars, normVars, ratioVars, downloadVars, cache_files,
                   cacheVars, laterVars>>
exceptDownload == <<rowVars, normVars, ratioVars, metricVars, metric155Vars,
                    cacheVars, laterVars>>
exceptCache == <<rowVars, normVars, ratioVars, metricVars, metric155Vars,
                 downloadVars, laterVars>>
exceptEm == <<rowVars, normVars, ratioVars, metricVars, metric155Vars,
              cacheVars, appVars, scriptVars, monitorVars>>
exceptApp == <<rowVars, normVars, ratioVars, metricVars, metric155Vars,
               downloadVars, cacheVars, emVars, scriptVars, monitorVars>>
exceptScript == <<rowVars, normVars, ratioVars, metricVars, metric155Vars,
                  downloadVars, emVars, appVars, monitorVars>>
exceptMonitor == <<rowVars, normVars, ratioVars, metricVars, metric155Vars,
                   downloadVars, cache_files, cacheVars, emVars, appVars,
                   scriptVars, messages>>

-----------------------------------------------------------------------------
(* Text *)

\* Python's `p in s` for two strings: p occurs in s as a contiguous run.
MatchesAt(s, p, i) ==
    /\ i + Len(p) - 1 <= Len(s)
    /\ \A k \in 1..Len(p) : s[i + k - 1] = p[k]

Contains(s, p) == \E i \in 1..(Len(s) + 1) : MatchesAt(s, p, i)

\* Series.str.contains('a|b|c'): the regular expression is an alternation of
\* literals, so a label matches when it contains one of them.
ContainsAny(s, patterns) ==
    \E k \in 1..Len(patterns) : Contains(s, patterns[k])

\* The indices of seq that satisfy Test, in table order (boolean-mask
\* selection df[mask] keeps row order).
RECURSIVE MatchingRows(_, _, _)
MatchingRows(labels, patterns, i) ==
    IF i > Len(labels) THEN <<>>
    ELSE (IF ContainsAny(labels[i], patterns) THEN <<i>> ELSE <<>>)
         \o MatchingRows(labels, patterns, i + 1)

\* df[df.iloc[:, 0].str.contains('|'.join(patterns), na=False)]
RowsContaining(labels, patterns) == MatchingRows(labels, patterns, 1)

\* A faulty variant of FirstRow: the last matching row instead of the first.
LastRow(matching) == IF matching = <<>> THEN 0 ELSE matching[Len(matching)]

\* matching_rows.iloc[0]; 0 stands for "no row" (None).
FirstRow(matching) == IF matching = <<>> THEN 0 ELSE matching[1]

-----------------------------------------------------------------------------
(* Labels of accounting items *)

L_jinglirun == <<"jing", "li", "run">>                 \* net profit
L_yingyelirun == <<"ying", "ye", "li", "run">>         \* operating profit
L_yingyeshouru == <<"ying", "ye", "shou", "ru">>       \* operating revenue
L_yingyezongshouru == <<"ying", "ye", "zong", "shou", "ru">>
L_zhuyingyewushouru == <<"zhu", "ying", "ye", "wu", "shou", "ru">>
L_zichanzongji == <<"zi", "chan", "zong", "ji">>       \* total assets
L_zichanfuzhaibiao == <<"zi", "chan", "fu", "zhai", "biao">> \* "balance sheet"
L_liudongzichan == <<"liu", "dong4", "zi", "chan">>    \* current assets
L_suoyouzhequanyi == <<"suo", "you", "zhe", "quan", "yi">> \* owners' equity

IncomeLabels ==
    {L_jinglirun, L_yingyelirun, L_yingyeshouru, L_zhuyingyewushouru,
     L_yingyezongshouru}

BalanceLabels ==
    {L_zichanzongji, L_zichanfuzhaibiao, L_liudongzichan, L_suoyouzhequanyi}

-----------------------------------------------------------------------------
(* Row lookup *)

\* get_financial_ratios (app_20250323223652): asset_patterns,
\* equity_patterns, profit_patterns.  The last two profit patterns hold
\* parentheses, which the regular expression reads as a group: they match
\* the text without the parentheses.
ratios_asset_patterns ==
    << <<"zong", "zi", "chan">>, <<"zi", "chan", "zong", "ji">>,
       <<"zi", "chan", "zong", "e">>, <<"zi", "chan", "fu", "zhai", "biao">>,
       <<"zi", "chan", "he", "ji">>, <<"zi", "chan", "zong", "he2">> >>

ratios_equity_patterns ==
    << <<"suo", "you", "zhe", "quan", "yi">>, <<"gu", "dong1", "quan", "yi">>,
       <<"jing", "zi", "chan">>,
       <<"suo", "you", "zhe", "quan", "yi", "he", "ji">>,
       <<"gu", "dong1", "quan", "yi", "he", "ji">>,
       <<"quan", "yi", "he", "ji">>, <<"quan", "yi", "zong", "ji">>,
       <<"gu", "dong1", "quan", "yi", "zong", "ji">> >>

ratios_profit_patterns ==
    << <<"jing", "li", "run">>,
       <<"gui", "shu3", "yu", "mu3", "gong", "si", "gu", "dong1", "de",
         "jing", "li", "run">>,
       <<"gui", "shu3", "yu", "shang", "shi", "gong", "si", "gu", "dong1",
         "de", "jing", "li", "run">>,
       <<"li", "run", "zong", "e">>, <<"jing", "li">>, <<"li", "run">>,
       <<"jing", "li", "run", "han", "shao", "shu4", "gu", "dong1", "sun",
         "yi">>,
       <<"jing", "li", "run", "kou", "chu", "shao", "shu4", "gu", "dong1",
         "sun", "yi">> >>

\* The fuzzier second attempts of get_financial_ratios.
fuzzy_asset == <<"zi", "chan">>
fuzzy_equity == <<"quan", "yi">>
fuzzy_profit == <<"li", "run">>

\* rows = df[col.str.contains('|'.join(patterns))]; if rows.empty:
\* rows = df[col.str.contains(fuzzy)]
RowsWithFallback(labels, patterns, fuzzy) ==
    LET first == RowsContaining(labels, patterns)
    IN  IF first = <<>> THEN RowsContaining(labels, <<fuzzy>>) ELSE first

\* The three rows get_financial_ratios uses, or "None" when it returns None
\* because one of them was not found.
RatiosRows(bs, is) ==
    LET asset_rows == RowsWithFallback(bs, ratios_asset_patterns, fuzzy_asset)
        equity_rows == RowsWithFallback(bs, ratios_equity_patterns,
                                        fuzzy_equity)
        profit_rows == RowsWithFallback(is, ratios_profit_patterns,
                                        fuzzy_profit)
    IN  IF asset_rows = <<>> \/ equity_rows = <<>> \/ profit_rows = <<>>
        THEN [found |-> FALSE, asset |-> 0, equity |-> 0, profit |-> 0]
        ELSE [found |-> TRUE,
              asset |-> FirstRow(asset_rows),
              equity |-> FirstRow(equity_rows),
              profit |-> FirstRow(profit_rows)]

\* get_financial_metrics (app_20250323223652): revenue_patterns and
\* profit_patterns, tried one after the other.
metrics_revenue_patterns ==
    << <<"ying", "ye", "shou", "ru">>, <<"ying", "ye", "zong", "shou", "ru">>,
       <<"zhu", "ying", "ye", "wu", "shou", "ru">>,
       <<"zhu", "ying", "shou", "ru">>, <<"zong", "shou", "ru">> >>

metrics_profit_patterns ==
    << <<"jing", "li", "run">>,
       <<"gui", "shu3", "yu", "mu3", "gong", "si", "suo", "you", "zhe", "de",
         "jing", "li", "run">>,
       <<"gui", "mu3", "jing", "li", "run">>,
       <<"gui", "shu3", "yu", "mu3", "gong", "si", "gu", "dong1", "de",
         "jing", "li", "run">> >>

\* for pattern in patterns: matching_rows = ...; if not matching_rows.empty:
\* row = matching_rows.iloc[0]; break
RECURSIVE PatternLoop(_, _, _)
PatternLoop(labels, patterns, k) ==
    IF k > Len(patterns) THEN 0
    ELSE LET matching_rows == RowsContaining(labels, <<patterns[k]>>)
         IN  IF matching_rows # <<>> THEN FirstRow(matching_rows)
             ELSE PatternLoop(labels, patterns, k + 1)

\* The revenue and profit rows of get_financial_metrics (223652); the
\* function returns (None, None, None) when one of them is 0.
MetricsRows(labels) ==
    [revenue |-> PatternLoop(labels, metrics_revenue_patterns, 1),
     profit |-> PatternLoop(labels, metrics_profit_patterns, 1)]

\* get_financial_metrics (app_20250323155301): revenue_patterns and
\* profit_patterns joined into one expression each.
metrics155_revenue_patterns ==
    << <<"ying", "ye", "shou", "ru">>, <<"ying", "ye", "zong", "shou", "ru">>,
       <<"zhu", "ying", "ye", "wu", "shou", "ru">>, <<"zong", "shou", "ru">>,
       <<"shou", "ru", "zong", "ji">>, <<"ying", "ye", "e">> >>

metrics155_profit_patterns ==
    << <<"jing", "li", "run">>,
       <<"gui", "shu3", "yu", "mu3", "gong", "si", "gu", "dong1", "de",
         "jing", "li", "run">>,
       <<"gui", "shu3", "yu", "shang", "shi", "gong", "si", "gu", "dong1",
         "de", "jing", "li", "run">>,
       <<"li", "run", "zong", "e">>, <<"jing", "li">>, <<"li", "run">> >>

fuzzy_revenue == <<"shou", "ru">>

\* The rows get_financial_metrics (155301) uses; it returns (None, None)
\* when one of the two lookups is empty.
Metrics155Rows(labels) ==
    LET revenue_rows == RowsWithFallback(labels, metrics155_revenue_patterns,
                                         fuzzy_revenue)
        profit_rows == RowsWithFallback(labels, metrics155_profit_patterns,
                                        fuzzy_profit)
    IN  IF revenue_rows = <<>> \/ profit_rows = <<>>
        THEN [found |-> FALSE, revenue |-> 0, profit |-> 0]
        ELSE [found |-> TRUE, revenue |-> FirstRow(revenue_rows),
              profit |-> FirstRow(profit_rows)]

-----------------------------------------------------------------------------
(* The row-lookup specification: each function's lookup applied to the     *)
(* item-label columns of a balance sheet and an income statement.          *)

MaxIsRows == 3
MaxBsRows == 2

SeqsUpTo(S, n) == UNION {[1..k -> S] : k \in 1..n}

NoRows == [found |-> FALSE, asset |-> 0, equity |-> 0, profit |-> 0,
           revenue |-> 0]

IdleNorm ==
    /\ raw_df = <<>>
    /\ norm1 = <<>>
    /\ norm2 = <<>>
    /\ npc = "idle"

IdleRatios ==
    /\ balance_sheet = <<>>
    /\ income_statement = <<>>
    /\ rpc = "idle"
    /\ rows = NoRows
    /\ common_dates = <<>>
    /\ ratio_data = <<>>
    /\ ratio_result = "none"

IdleRows ==
    /\ is_labels = <<>>
    /\ bs_labels = <<>>
    /\ located = NoRows
    /\ ran = "idle"

NoMetrics == [kind |-> "none", series |-> <<>>]

NoFrame == [kind |-> "none", data |-> <<>>]

IdleMetrics ==
    /\ income_table = <<>>
    /\ mpc = "idle"
    /\ metrics_result = NoMetrics
    /\ financial_data = NoFrame

IdleMetrics155 ==
    /\ m155pc = "idle"
    /\ metrics155_result = NoFrame

\* The parts that take no step in a run of one part.
NoDownload == [kind |-> "none", count |-> 0]

IdleDownload ==
    /\ program = "none"
    /\ responses = <<>>
    /\ name_response = "none"
    /\ dpc = "idle"
    /\ report_index = 0
    /\ successful_downloads = 0
    /\ report_data = {}
    /\ download_result = NoDownload

NotLoaded == [kind |-> "none", bs_file |-> <<>>, is_file |-> <<>>,
              cf_file |-> <<>>, is_em_format |-> FALSE]

IdleLoad ==
    /\ current_date = <<>>
    /\ cachepc = "idle"
    /\ loaded = NotLoaded

IdleEm ==
    /\ em_source = 0
    /\ em_calls = <<>>
    /\ em_tables = <<>>

NoReports == [balance_sheet |-> <<>>, income_statement |-> <<>>]

IdleApp ==
    /\ data_source = "none"
    /\ apc = "idle"
    /\ app_result = "none"
    /\ app_obtained = {}
    /\ app_reports = NoReports

IdleScript == available_stocks = {}

IdleMonitor ==
    /\ is_running = FALSE
    /\ clear_data = FALSE
    /\ price_history = <<>>
    /\ flow_history = <<>>
    /\ now = 0
    /\ updated_at = -1
    /\ clear_pressed_at = -1
    /\ iterations_after_clear = 0

IdleLater == IdleEm /\ IdleApp /\ IdleScript /\ IdleMonitor

IdleCache == IdleDownload /\ cache_files = {} /\ IdleLoad /\ IdleLater

OnlyRows ==
    /\ IdleNorm /\ IdleRatios /\ IdleMetrics /\ IdleMetrics155 /\ IdleCache
    /\ messages = {}
OnlyNorm ==
    /\ IdleRows /\ IdleRatios /\ IdleMetrics /\ IdleMetrics155 /\ IdleCache
    /\ messages = {}
OnlyRatios ==
    IdleRows /\ IdleNorm /\ IdleMetrics /\ IdleMetrics155 /\ IdleCache
OnlyMetrics == IdleRows /\ IdleNorm /\ IdleRatios /\ IdleCache
OnlyDownload ==
    /\ IdleRows /\ IdleNorm /\ IdleRatios /\ IdleMetrics /\ IdleMetrics155
    /\ IdleLoad /\ IdleLater
OnlyCache ==
    /\ IdleRows /\ IdleNorm /\ IdleRatios /\ IdleMetrics /\ IdleMetrics155
    /\ IdleDownload /\ IdleLater
OnlyEm ==
    /\ IdleRows /\ IdleNorm /\ IdleRatios /\ IdleMetrics /\ IdleMetrics155
    /\ IdleLoad /\ IdleApp /\ IdleScript /\ IdleMonitor
OnlyApp ==
    /\ IdleRows /\ IdleNorm /\ IdleRatios /\ IdleMetrics /\ IdleMetrics155
    /\ IdleDownload /\ IdleLoad /\ IdleEm /\ IdleScript /\ IdleMonitor
OnlyMonitor ==
    /\ IdleRows /\ IdleNorm /\ IdleRatios /\ IdleMetrics /\ IdleMetrics155
    /\ IdleDownload /\ cache_files = {} /\ IdleLoad /\ IdleEm /\ IdleApp
    /\ IdleScript /\ messages = {}

\* Balance sheets that end with the equity row, so that the three rows of
\* get_financial_ratios are found whatever stands above it.
ClosedBalanceLabels ==
    {labels \o <<L_suoyouzhequanyi>> :
        labels \in SeqsUpTo(BalanceLabels, MaxBsRows)}

InitRows ==
    /\ \/ /\ is_labels \in SeqsUpTo(IncomeLabels, MaxIsRows)
          /\ bs_labels \in SeqsUpTo(BalanceLabels, MaxBsRows)
       \/ /\ is_labels = <<L_jinglirun>>
          /\ bs_labels \in ClosedBalanceLabels
    /\ located = NoRows
    /\ ran = "none"
    /\ OnlyRows

\* get_financial_ratios, lines 574-645: the three rows it goes on to use.
LocateRatios ==
    /\ ran = "none"
    /\ ran' = "ratios"
    /\ located' = [NoRows EXCEPT
                     !.found = RatiosRows(bs_labels, is_labels).found,
                     !.asset = RatiosRows(bs_labels, is_labels).asset,
                     !.equity = RatiosRows(bs_labels, is_labels).equity,
                     !.profit = RatiosRows(bs_labels, is_labels).profit]
    /\ UNCHANGED <<is_labels, bs_labels, exceptRows>>

\* get_financial_metrics (223652), lines 237-257.
LocateMetrics ==
    /\ ran = "none"
    /\ ran' = "metrics"
    /\ located' = [NoRows EXCEPT
                     !.found = /\ MetricsRows(is_labels).revenue # 0
                               /\ MetricsRows(is_labels).profit # 0,
                     !.revenue = MetricsRows(is_labels).revenue,
                     !.profit = MetricsRows(is_labels).profit]
    /\ UNCHANGED <<is_labels, bs_labels, exceptRows>>

\* get_financial_metrics (155301), lines 298-335.
LocateMetrics155 ==
    /\ ran = "none"
    /\ ran' = "metrics155"
    /\ located' = [NoRows EXCEPT
                     !.found = Metrics155Rows(is_labels).found,
                     !.revenue = Metrics155Rows(is_labels).revenue,
                     !.profit = Metrics155Rows(is_labels).profit]
    /\ UNCHANGED <<is_labels, bs_labels, exceptRows>>

NextRows == LocateRatios \/ LocateMetrics \/ LocateMetrics155

SpecRows == InitRows /\ [][NextRows]_vars

\* The rows of a label column that contain one of the patterns, as a set.
RowSet(labels, patterns) ==
    {i \in 1..Len(labels) : \E k \in 1..Len(patterns) :
                               Contains(labels[i], patterns[k])}

Lowest(S) == CHOOSE i \in S : \A j \in S : i <= j

\* C1: in get_financial_ratios, whenever an income-statement label contains
\* one of the most specific net-profit patterns (the first three of
\* profit_patterns), the net-profit row used is the first such row, also when
\* a row matching only a fuzzier pattern stands above it.
C1_ProfitTiersInOrder ==
    (ran = "ratios" /\ located.found) =>
        LET specific == RowSet(is_labels, SubSeq(ratios_profit_patterns, 1, 3))
        IN  specific # {} => located.profit = Lowest(specific)

\* C2: in get_financial_metrics (155301), an income statement holding a row
\* labelled yingyeshouru and a row labelled zhuyingyewushouru, in either
\* order, has the yingyeshouru row selected as revenue row (stated for the
\* runs in which the function found a revenue row and a profit row and so
\* went on to use them).
C2_RevenueBeatsMainRevenue ==
    (/\ ran = "metrics155"
     /\ located.found
     /\ \E i \in 1..Len(is_labels) : is_labels[i] = L_yingyeshouru
     /\ \E j \in 1..Len(is_labels) : is_labels[j] = L_zhuyingyewushouru)
    => is_labels[located.revenue] = L_yingyeshouru

\* The first pattern of a list that some label contains (0 when none does):
\* the pattern whose lookup yields the row of the pattern loop.
FirstHit(labels, patterns) ==
    IF \E k \in 1..Len(patterns) : RowSet(labels, <<patterns[k]>>) # {}
    THEN Lowest({k \in 1..Len(patterns) : RowSet(labels, <<patterns[k]>>) # {}})
    ELSE 0

\* The row a lookup must return by the first-match rule: the lowest row
\* among those its deciding expression matches.
LowestOfLoop(labels, patterns) ==
    IF FirstHit(labels, patterns) = 0 THEN 0
    ELSE Lowest(RowSet(labels, <<patterns[FirstHit(labels, patterns)]>>))

LowestOfJoined(labels, patterns, fuzzy) ==
    IF RowSet(labels, patterns) # {} THEN Lowest(RowSet(labels, patterns))
    ELSE IF RowSet(labels, <<fuzzy>>) # {}
         THEN Lowest(RowSet(labels, <<fuzzy>>))
         ELSE 0

NoEarlierTwin(labels, row) ==
    row # 0 => \A j \in 1..(row - 1) : labels[j] # labels[row]

\* C3: when several rows match the pattern that decides a lookup, the row
\* used by get_financial_metrics and by get_financial_ratios is the one with
\* the lowest row index; in particular, of two rows carrying the same label
\* the later one is never used.
C3_FirstMatchWins ==
    /\ ran = "metrics" =>
        /\ located.revenue = LowestOfLoop(is_labels, metrics_revenue_patterns)
        /\ located.profit = LowestOfLoop(is_labels, metrics_profit_patterns)
        /\ NoEarlierTwin(is_labels, located.revenue)
        /\ NoEarlierTwin(is_labels, located.profit)
    /\ (ran = "ratios" /\ located.found) =>
        /\ located.profit =
             LowestOfJoined(is_labels, ratios_profit_patterns, fuzzy_profit)
        /\ located.asset =
             LowestOfJoined(bs_labels, ratios_asset_patterns, fuzzy_asset)
        /\ located.equity =
             LowestOfJoined(bs_labels, ratios_equity_patterns, fuzzy_equity)
        /\ NoEarlierTwin(is_labels, located.profit)
        /\ NoEarlierTwin(bs_labels, located.asset)
        /\ NoEarlierTwin(bs_labels, located.equity)

\* get_financial_metrics has run on a table with two rows labelled
\* jinglirun, and the first of them is the profit row it uses.
C3_Witness ==
    /\ ran = "metrics"
    /\ located.found
    /\ \E j \in (located.profit + 1)..Len(is_labels) :
          /\ is_labels[j] = L_jinglirun
          /\ is_labels[located.profit] = L_jinglirun

-----------------------------------------------------------------------------
(* Tables.  A cell or a column header is text, a number or the missing     *)
(* value NaN; a table has an ordered list of column headers and an ordered *)
(* list of rows; an escaped exception is a result of its own.              *)

Str(chars) == [t |-> "str", s |-> chars, n |-> 0]
Num(k) == [t |-> "num", s |-> <<>>, n |-> k]
NaN == [t |-> "nan", s |-> <<>>, n |-> 0]

DataFrame(cols, data) == [exc |-> FALSE, columns |-> cols, data |-> data]
EmptyFrame == DataFrame(<<>>, <<>>)          \* pd.DataFrame()
TypeError == [exc |-> TRUE, columns |-> <<>>, data |-> <<>>]

\* DataFrame.empty: an axis of length 0.
IsEmpty(df) == Len(df.columns) = 0 \/ Len(df.data) = 0

\* The values of column number j, top to bottom.
Column(df, j) == [i \in 1..Len(df.data) |-> df.data[i][j]]

\* The position of header h among the columns (0 when absent).
ColIndex(df, h) ==
    IF \E j \in 1..Len(df.columns) : df.columns[j] = h
    THEN CHOOSE j \in 1..Len(df.columns) :
            /\ df.columns[j] = h
            /\ \A k \in 1..(j - 1) : df.columns[k] # h
    ELSE 0

\* ==, as pandas compares cell by cell: NaN equals nothing.
EqCell(a, b) == a.t # "nan" /\ b.t # "nan" /\ a = b

DigitChars == <<"0", "1", "2", "3", "4", "5", "6", "7", "8", "9">>
IsDigit(c) == \E d \in 1..10 : DigitChars[d] = c

RECURSIVE NatStr(_)
NatStr(k) ==
    IF k < 10 THEN <<DigitChars[k + 1]>>
    ELSE NatStr(k \div 10) \o <<DigitChars[(k % 10) + 1]>>

\* str(x) / Series.astype(str) of one cell.
PyStr(c) ==
    CASE c.t = "str" -> c.s
      [] c.t = "num" -> IF c.n < 0 THEN <<"-">> \o NatStr(-c.n) ELSE NatStr(c.n)
      [] OTHER -> <<"n", "a", "n">>

\* s[:k]
Prefix(s, k) == SubSeq(s, 1, IF Len(s) < k THEN Len(s) ELSE k)

\* s.replace('-', '')
IsNotDash(c) == c # "-"
WithoutDashes(s) == SelectSeq(s, IsNotDash)

\* Series.unique(): the distinct values in order of first appearance; NaN is
\* one value.
RECURSIVE Unique(_)
Unique(seq) ==
    IF seq = <<>> THEN <<>>
    ELSE LET init == Unique(SubSeq(seq, 1, Len(seq) - 1))
             last == seq[Len(seq)]
         IN  IF \E i \in 1..Len(init) : init[i] = last THEN init
             ELSE Append(init, last)

-----------------------------------------------------------------------------
(* convert_em_to_sina_format *)

\* date_pattern = r'^\d{8}$|^\d{4}-\d{2}-\d{2}$', tried with re.match
MatchesDatePattern(s) ==
    \/ /\ Len(s) = 8
       /\ \A i \in 1..8 : IsDigit(s[i])
    \/ /\ Len(s) = 10
       /\ s[5] = "-" /\ s[8] = "-"
       /\ \A i \in {1, 2, 3, 4, 6, 7, 9, 10} : IsDigit(s[i])

K_DATE == <<"D", "A", "T", "E">>
K_riqi == <<"ri", "qi">>
K_baogaoqi == <<"bao", "gao", "qi">>
K_baogaori == <<"bao", "gao", "ri">>
K_xiangmu == <<"xiang", "mu4">>
K_ITEM == <<"I", "T", "E", "M">>
K_kemu == <<"ke", "mu4">>
H_REPORT_DATE == Str(<<"R", "E", "P", "O", "R", "T", "_", "D", "A", "T", "E">>)

\* 'DATE' in col or ... : the test of line 1294 on one header.
IsDateHeader(h) ==
    \/ Contains(h.s, K_DATE) \/ Contains(h.s, K_riqi)
    \/ Contains(h.s, K_baogaoqi) \/ Contains(h.s, K_baogaori)

\* The test of line 1298 on one header.
IsItemHeader(h) ==
    \/ Contains(h.s, K_xiangmu) \/ Contains(h.s, K_ITEM)
    \/ Contains(h.s, K_kemu)

date_cols(df) == SelectSeq(df.columns, IsDateHeader)
item_cols(df) == SelectSeq(df.columns, IsItemHeader)

\* Lines 1316-1320: does the column's sample (its first ten values, as text)
\* name an accounting figure?
SampleRows10 == 10
HasFinancialTerm(df, h) ==
    LET sample == Prefix(Column(df, ColIndex(df, h)), SampleRows10)
    IN  \E i \in 1..Len(sample) :
           \/ Contains(PyStr(sample[i]), <<"shou", "ru">>)
           \/ Contains(PyStr(sample[i]), <<"li", "run">>)
           \/ Contains(PyStr(sample[i]), <<"zi", "chan">>)
           \/ Contains(PyStr(sample[i]), <<"fu", "zhai">>)

\* Lines 1304-1324: the date column and the item column of a long table;
\* the item column is NaN (None) when the date column is the only column.
DateCol(df) == IF date_cols(df) # <<>> THEN date_cols(df)[1] ELSE H_REPORT_DATE

ItemCol(df) ==
    IF item_cols(df) # <<>> THEN item_cols(df)[1]
    ELSE LET IsOther(h) == h # DateCol(df)
             non_date_cols == SelectSeq(df.columns, IsOther)
             IsTermCol(h) == HasFinancialTerm(df, h)
             with_terms == SelectSeq(non_date_cols, IsTermCol)
         IN  IF non_date_cols = <<>> THEN NaN
             ELSE IF with_terms # <<>> THEN with_terms[1]
             ELSE non_date_cols[1]

\* value_cols = [col for col in df.columns if col not in [date_col, item_col]]
ValueCols(df) ==
    LET IsValue(h) == h # DateCol(df) /\ h # ItemCol(df)
    IN  SelectSeq(df.columns, IsValue)

\* date_str of lines 1336-1338.
DateStr(date) == Str(Prefix(WithoutDashes(PyStr(date)), 8))

\* pivot_df.loc[pivot_df[item_col] == item, date_str] = value: a new column
\* is created holding NaN in the other rows.
SetByItem(pivot, item, header, value) ==
    LET widened ==
            IF ColIndex(pivot, header) # 0 THEN pivot
            ELSE DataFrame(Append(pivot.columns, header),
                           [i \in 1..Len(pivot.data) |->
                               Append(pivot.data[i], NaN)])
        j == ColIndex(widened, header)
    IN  DataFrame(widened.columns,
                  [i \in 1..Len(widened.data) |->
                      IF EqCell(widened.data[i][1], item)
                      THEN [widened.data[i] EXCEPT ![j] = value]
                      ELSE widened.data[i]])

\* Lines 1349-1354 for one date and one item: the value of the first row of
\* the date that carries the item, if there is one.
PivotItem(df, pivot, date, item) ==
    LET dc == ColIndex(df, DateCol(df))
        ic == ColIndex(df, ItemCol(df))
        vc == ColIndex(df, ValueCols(df)[1])
        hits == {i \in 1..Len(df.data) :
                    EqCell(df.data[i][dc], date) /\ EqCell(df.data[i][ic], item)}
    IN  IF hits = {} THEN pivot
        ELSE SetByItem(pivot, item, DateStr(date),
                       df.data[CHOOSE i \in hits : \A k \in hits : i <= k][vc])

RECURSIVE PivotItems(_, _, _, _, _)
PivotItems(df, pivot, date, items, k) ==
    IF k > Len(items) THEN pivot
    ELSE PivotItems(df, PivotItem(df, pivot, date, items[k]), date, items,
                    k + 1)

\* Lines 1335-1354: the loop over the unique dates.
RECURSIVE PivotDates(_, _, _, _)
PivotDates(df, pivot, dates, d) ==
    IF d > Len(dates) THEN pivot
    ELSE PivotDates(df,
                    IF ValueCols(df) = <<>> THEN pivot
                    ELSE PivotItems(df, pivot, dates[d], Column(pivot, 1), 1),
                    dates, d + 1)

\* Lines 1302-1358: the long-format branch.
LongPivot(df) ==
    IF ItemCol(df) = NaN THEN EmptyFrame
    ELSE LET items == Unique(Column(df, ColIndex(df, ItemCol(df))))
             start == DataFrame(<<ItemCol(df)>>,
                                [i \in 1..Len(items) |-> <<items[i]>>])
             dates == Unique(Column(df, ColIndex(df, DateCol(df))))
         IN  PivotDates(df, start, dates, 1)

\* Lines 1290 and 1360: do the first five values of the first column, NaN
\* and None left out, all look like dates?
SampleRows5 == 5
FirstColumnIsDates(df) ==
    LET sample_values == Prefix(Column(df, 1), SampleRows5)
    IN  \A i \in 1..Len(sample_values) :
           \/ PyStr(sample_values[i]) = <<"n", "a", "n">>
           \/ PyStr(sample_values[i]) = <<"N", "o", "n", "e">>
           \/ MatchesDatePattern(PyStr(sample_values[i]))

H_xiangmu == Str(K_xiangmu)

\* Lines 1364-1381: set_index(first column).transpose().reset_index(), the
\* new first column renamed from 'index' to xiangmu.
Transposed(df) ==
    DataFrame(<<H_xiangmu>> \o Column(df, 1),
              [j \in 1..(Len(df.columns) - 1) |->
                  <<df.columns[j + 1]>> \o
                  [i \in 1..Len(df.data) |-> df.data[i][j + 1]]])

\* convert_em_to_sina_format(df).  `'DATE' in col` raises TypeError for a
\* header that is not text.
convert_em_to_sina_format(df) ==
    IF IsEmpty(df) THEN EmptyFrame
    ELSE IF \E j \in 1..Len(df.columns) : df.columns[j].t # "str"
         THEN TypeError
    ELSE IF date_cols(df) # <<>> THEN LongPivot(df)
    ELSE IF FirstColumnIsDates(df) THEN Transposed(df)
    ELSE df

-----------------------------------------------------------------------------
(* The normalizer specification: convert_em_to_sina_format applied to a    *)
(* raw table, and then to its own result.                                  *)

D_20231231 == <<"2", "0", "2", "3", "1", "2", "3", "1">>
D_20221231 == <<"2", "0", "2", "2", "1", "2", "3", "1">>
D_2023_12_31 == <<"2", "0", "2", "3", "-", "1", "2", "-", "3", "1">>
D_2022_12_31 == <<"2", "0", "2", "2", "-", "1", "2", "-", "3", "1">>

\* The raw columns a provider table is assembled from: a header and the
\* column's values, one per row (every raw table has two rows).
RawColumns ==
    { \* date columns of a long table
      [h |-> H_REPORT_DATE, v |-> <<Str(D_20231231), Str(D_20221231)>>],
      [h |-> H_REPORT_DATE, v |-> <<Str(D_20231231), Str(D_2023_12_31)>>],
      [h |-> Str(K_baogaori), v |-> <<Str(D_2023_12_31), Str(D_2022_12_31)>>],
      \* date columns under a header that names no date
      [h |-> Str(<<"U", "n", "n", "a", "m", "e", "d">>),
       v |-> <<Str(D_20231231), Str(D_20221231)>>],
      [h |-> Str(<<"U", "n", "n", "a", "m", "e", "d">>),
       v |-> <<Num(20231231), Num(20221231)>>],
      [h |-> Str(<<"U", "n", "n", "a", "m", "e", "d">>),
       v |-> <<Str(D_20231231), Str(D_20231231)>>],
      \* item-label columns
      [h |-> H_xiangmu, v |-> <<Str(L_yingyeshouru), Str(L_jinglirun)>>],
      [h |-> H_xiangmu, v |-> <<Str(L_jinglirun), Str(L_jinglirun)>>],
      \* headed baobiaoriqi ("statement date"), the corner cell of a table
      \* whose header row lists the periods
      [h |-> Str(<<"bao", "biao", "ri", "qi">>),
       v |-> <<Str(L_yingyeshouru), Str(L_jinglirun)>>],
      [h |-> Str(<<"ming", "cheng2">>),
       v |-> <<Str(L_yingyeshouru), Str(L_jinglirun)>>],
      \* REPORT_DATE_NAME: "2023 nianbao", "2022 nianbao"
      [h |-> Str(H_REPORT_DATE.s \o <<"_", "N", "A", "M", "E">>),
       v |-> <<Str(<<"2", "0", "2", "3", "nian", "bao">>),
               Str(<<"2", "0", "2", "2", "nian", "bao">>)>>],
      \* value columns
      [h |-> Str(<<"A", "M", "O", "U", "N", "T">>), v |-> <<Num(100), Num(200)>>],
      [h |-> Str(L_yingyeshouru), v |-> <<Num(100), Num(200)>>],
      [h |-> Str(L_jinglirun), v |-> <<Num(300), NaN>>],
      [h |-> Str(D_20231231), v |-> <<Num(100), Num(200)>>],
      [h |-> Str(D_20221231), v |-> <<Num(300), NaN>>],
      [h |-> Num(2023), v |-> <<Num(100), Num(200)>>] }

MaxCols == 3

\* The table whose columns are cs, left to right.
TableOf(cs) ==
    DataFrame([j \in 1..Len(cs) |-> cs[j].h],
              [i \in 1..2 |-> [j \in 1..Len(cs) |-> cs[j].v[i]]])

DistinctHeaders(cs) ==
    \A j, k \in 1..Len(cs) : j # k => cs[j].h # cs[k].h

\* Raw tables of two to MaxCols columns.
RawTables ==
    {TableOf(cs) : cs \in {c \in SeqsUpTo(RawColumns, MaxCols) :
                             Len(c) >= 2 /\ DistinctHeaders(c)}}

InitNorm ==
    /\ raw_df \in RawTables
    /\ norm1 = EmptyFrame
    /\ norm2 = EmptyFrame
    /\ npc = "raw"
    /\ OnlyNorm

NormalizeOnce ==
    /\ npc = "raw"
    /\ norm1' = convert_em_to_sina_format(raw_df)
    /\ npc' = "once"
    /\ UNCHANGED <<raw_df, norm2, exceptNorm>>

\* The result of a first call is handed to the function again.
NormalizeAgain ==
    /\ npc = "once"
    /\ ~norm1.exc
    /\ norm2' = convert_em_to_sina_format(norm1)
    /\ npc' = "twice"
    /\ UNCHANGED <<raw_df, norm1, exceptNorm>>

NextNorm == NormalizeOnce \/ NormalizeAgain

SpecNorm == InitNorm /\ [][NextNorm]_vars

\* C4: convert_em_to_sina_format is idempotent: applied to its own output
\* for a non-empty raw table of any shape, it gives that output again.
C4_Idempotent == npc = "twice" => norm2 = norm1

IsLabelText(c) ==
    /\ c.t = "str"
    /\ \/ Contains(c.s, <<"shou", "ru">>) \/ Contains(c.s, <<"li", "run">>)
       \/ Contains(c.s, <<"zi", "chan">>) \/ Contains(c.s, <<"fu", "zhai">>)

IsDateText(c) == c.t = "str" /\ MatchesDatePattern(c.s)

\* Standard shape: the first column holds item labels and every other
\* column is headed by a reporting period.
IsStandardShape(df) ==
    /\ ~IsEmpty(df)
    /\ df.columns[1].t = "str"
    /\ \A i \in 1..Len(df.data) : IsLabelText(df.data[i][1])
    /\ \A j \in 2..Len(df.columns) : IsDateText(df.columns[j])

\* C5: a table already in standard shape is returned unchanged, whatever
\* the header of its item-label column.
C5_StandardUnchanged ==
    (npc # "raw" /\ IsStandardShape(raw_df)) => norm1 = raw_df

\* Transposed shape: the first column holds only date strings and the other
\* columns are named by accounting items.
IsTransposedShape(df) ==
    /\ ~IsEmpty(df)
    /\ Len(df.columns) >= 2
    /\ df.columns[1].t = "str"
    /\ \A i \in 1..Len(df.data) : IsDateText(df.data[i][1])
    /\ \A j \in 2..Len(df.columns) : IsLabelText(df.columns[j])

\* C6: a table in transposed shape comes back with the item names as first
\* column (one row per item), the dates of the input's first column as the
\* other columns, and cell (item, date) equal to the input's (date, item).
C6_TransposedIsTransposed ==
    (npc # "raw" /\ IsTransposedShape(raw_df)) =>
        /\ ~norm1.exc
        /\ Len(norm1.data) = Len(raw_df.columns) - 1
        /\ Len(norm1.columns) = Len(raw_df.data) + 1
        /\ \A j \in 1..Len(norm1.data) :
              /\ Len(norm1.data[j]) = Len(norm1.columns)
              /\ norm1.data[j][1] = raw_df.columns[j + 1]
              /\ \A i \in 1..Len(raw_df.data) :
                    /\ norm1.columns[i + 1] = raw_df.data[i][1]
                    /\ norm1.data[j][i + 1] = raw_df.data[i][j + 1]

\* C7: every table returned for a non-empty input has its item-label column
\* first, and all its other headers are strings, pairwise distinct.
C7_OutputHeaders ==
    (npc # "raw" /\ ~IsEmpty(raw_df) /\ ~norm1.exc) =>
        /\ Len(norm1.columns) >= 1
        /\ \A j \in 2..Len(norm1.columns) : norm1.columns[j].t = "str"
        /\ \A j, k \in 2..Len(norm1.columns) :
              j # k => norm1.columns[j] # norm1.columns[k]

\* C8: a long table (a date-like column is present) with an item column and
\* no value column gives an empty table, with no rows.
C8_NoValueColumnGivesEmpty ==
    (/\ npc # "raw"
     /\ ~IsEmpty(raw_df)
     /\ ~norm1.exc
     /\ date_cols(raw_df) # <<>>
     /\ ItemCol(raw_df) # NaN
     /\ ValueCols(raw_df) = <<>>)
    => Len(norm1.data) = 0

-----------------------------------------------------------------------------
(* get_financial_ratios (app_20250323223652) *)

\* A float is NaN or an exact number of hundredths.
Float(centi) == [kind |-> "float", c |-> centi]
FloatNaN == [kind |-> "nan", c |-> 0]
ValueError == [kind |-> "ValueError", c |-> 0]

IsSpace(ch) == ch = " "

\* s.strip()
RECURSIVE Strip(_)
Strip(s) ==
    IF s = <<>> THEN s
    ELSE IF IsSpace(s[1]) THEN Strip(Tail(s))
    ELSE IF IsSpace(s[Len(s)]) THEN Strip(SubSeq(s, 1, Len(s) - 1))
    ELSE s

DigitOf(ch) == (CHOOSE d \in 1..10 : DigitChars[d] = ch) - 1

RECURSIVE NatOf(_)
NatOf(digits) ==
    IF digits = <<>> THEN 0
    ELSE 10 * NatOf(SubSeq(digits, 1, Len(digits) - 1))
         + DigitOf(digits[Len(digits)])

AllDigits(s) == \A i \in 1..Len(s) : IsDigit(s[i])

\* The hundredths written by the fraction digits (two digits are kept: the
\* cells of the model carry no more).
Hundredths(frac) ==
    IF frac = <<>> THEN 0
    ELSE IF Len(frac) = 1 THEN 10 * DigitOf(frac[1])
    ELSE 10 * DigitOf(frac[1]) + DigitOf(frac[2])

\* float(text) for decimal literals: surrounding blanks, a sign, digits and
\* one point; "nan" gives NaN; anything else raises ValueError.  (Exponents,
\* underscores and "inf" are not in the alphabet of the model's cells.)
PyFloat(text) ==
    LET t == Strip(text)
        neg == t # <<>> /\ t[1] = "-"
        body == IF t # <<>> /\ t[1] \in {"-", "+"} THEN Tail(t) ELSE t
        dots == {i \in 1..Len(body) : body[i] = "."}
        whole == IF dots = {} THEN body
                 ELSE SubSeq(body, 1, (CHOOSE i \in dots : TRUE) - 1)
        frac == IF dots = {} THEN <<>>
                ELSE SubSeq(body, (CHOOSE i \in dots : TRUE) + 1, Len(body))
        magnitude == 100 * NatOf(whole) + Hundredths(frac)
    IN  IF body = <<"n", "a", "n">> THEN FloatNaN
        ELSE IF \/ Cardinality(dots) > 1
                \/ ~AllDigits(whole) \/ ~AllDigits(frac)
                \/ (whole = <<>> /\ frac = <<>>)
             THEN ValueError
        ELSE Float(IF neg THEN -magnitude ELSE magnitude)

\* s.replace(',', '')
IsNotComma(ch) == ch # ","
WithoutCommas(s) == SelectSeq(s, IsNotComma)

\* A faulty variant of ToFloat: the thousands separators are left in.
ToFloatKeepingCommas(value) == PyFloat(PyStr(value))

\* float(str(value).replace(',', '')) of lines 689-691.
ToFloat(value) == PyFloat(WithoutCommas(PyStr(value)))

\* pd.notna(value)
NotNa(value) == value.t # "nan"

\* A faulty variant of AllNotNa: only the total-assets cell is tested.
AssetNotNa(asset_value, equity_value, profit_value) == NotNa(asset_value)

\* Line 686.
AllNotNa(asset_value, equity_value, profit_value) ==
    NotNa(asset_value) /\ NotNa(equity_value) /\ NotNa(profit_value)

\* A ratio in percent: None, NaN, or the exact quotient num / den.
None == [kind |-> "None", num |-> 0, den |-> 0]
Quotient(num, den) == [kind |-> "q", num |-> num, den |-> den]
ZeroDivisionError == [kind |-> "ZeroDivisionError", num |-> 0, den |-> 0]

\* (x / y) * 100
PercentOf(x, y) ==
    IF x = FloatNaN \/ y = FloatNaN THEN [kind |-> "nan", num |-> 0, den |-> 0]
    ELSE IF y.c = 0 THEN ZeroDivisionError
    ELSE Quotient(x.c * 100, y.c)

\* A faulty variant of GuardedPercent: the division without its guard.
UnguardedPercent(net_profit, base) == PercentOf(net_profit, base)

\* (net_profit / base) * 100 if base != 0 else None  (lines 696-697)
GuardedPercent(net_profit, base) ==
    IF base = FloatNaN \/ base.c # 0 THEN PercentOf(net_profit, base) ELSE None

\* Order of two strings as Python compares them, for the characters of
\* period headers: '-' sorts before the digits.
CharRank(ch) == IF IsDigit(ch) THEN DigitOf(ch) + 1
                ELSE IF ch = "-" THEN 0 ELSE 11

RECURSIVE StrLess(_, _)
StrLess(a, b) ==
    IF b = <<>> THEN FALSE
    ELSE IF a = <<>> THEN TRUE
    ELSE IF a[1] = b[1] THEN StrLess(Tail(a), Tail(b))
    ELSE CharRank(a[1]) < CharRank(b[1])

\* sorted(S, reverse=True)
RECURSIVE SortedDescending(_)
SortedDescending(S) ==
    IF S = {} THEN <<>>
    ELSE LET top == CHOOSE x \in S : \A y \in S : y = x \/ StrLess(y, x)
         IN  <<top>> \o SortedDescending(S \ {top})

\* [str(col) for col in df.columns[1:]]
PeriodHeaders(df) == [j \in 1..(Len(df.columns) - 1) |-> PyStr(df.columns[j + 1])]

Range(seq) == {seq[i] : i \in 1..Len(seq)}

\* seq.index(x): the first position of x.
IndexOf(seq, x) == CHOOSE i \in 1..Len(seq) :
                      seq[i] = x /\ \A k \in 1..(i - 1) : seq[k] # x

\* Line 535.
CommonDates(bs, is) ==
    SortedDescending(Range(PeriodHeaders(bs)) \cap Range(PeriodHeaders(is)))

\* The first column as text (lines 555-556).
LabelColumn(df) == [i \in 1..Len(df.data) |-> PyStr(df.data[i][1])]

\* Lines 668-681: the three raw cells of one period.
AssetValue(date) ==
    balance_sheet.data[rows.asset][IndexOf(PeriodHeaders(balance_sheet), date) + 1]
EquityValue(date) ==
    balance_sheet.data[rows.equity][IndexOf(PeriodHeaders(balance_sheet), date) + 1]
ProfitValue(date) ==
    income_statement.data[rows.profit][IndexOf(PeriodHeaders(income_statement), date) + 1]

\* Lines 686-706: the row appended for one period, given its three cells
\* already converted.
RatioRow(date, total_asset, net_equity, net_profit) ==
    [date |-> date, total_asset |-> total_asset, net_equity |-> net_equity,
     net_profit |-> net_profit,
     roa |-> GuardedPercent(net_profit, total_asset),
     roe |-> GuardedPercent(net_profit, net_equity)]

\* Lines 665-714, one period: the rows after the iteration.  A ValueError
\* of float() and any other exception are caught inside the loop and leave
\* the period out.
AfterDate(data, date) ==
    LET asset_value == AssetValue(date)
        equity_value == EquityValue(date)
        profit_value == ProfitValue(date)
        total_asset == ToFloat(asset_value)
        net_equity == ToFloat(equity_value)
        net_profit == ToFloat(profit_value)
        row == RatioRow(date, total_asset, net_equity, net_profit)
    IN  IF ~AllNotNa(asset_value, equity_value, profit_value) THEN data
        ELSE IF ValueError \in {total_asset, net_equity, net_profit} THEN data
        ELSE IF ZeroDivisionError \in {row.roa, row.roe} THEN data
        ELSE Append(data, row)

-----------------------------------------------------------------------------
(* The statements handed to get_financial_ratios *)

\* What a figure cell can hold: zero, a number, a number written with
\* thousands separators, the placeholder "-", and a missing value.
C_zero == Num(0)
C_number == Num(200)
C_grouped == Str(<<"1", ",", "2", "3", "4", ".", "5", "0">>)
C_dash == Str(<<"-">>)
RatioCells == {C_zero, C_number, C_grouped, C_dash, NaN}

\* Period headers of the two statements: the same periods in either order,
\* and an income statement that lacks one of them.
BsPeriods == {<<Str(D_20231231), Str(D_20221231)>>,
              <<Str(D_20221231), Str(D_20231231)>>}
IsPeriods == {<<Str(D_20231231), Str(D_20221231)>>, <<Str(D_20231231)>>}

\* A balance sheet: a current-assets row above the total-assets and equity
\* rows.
BalanceSheetOf(periods, assets, equity) ==
    DataFrame(<<H_xiangmu>> \o periods,
              << <<Str(L_liudongzichan)>> \o [j \in 1..Len(periods) |-> Num(50)],
                 <<Str(L_zichanzongji)>> \o assets,
                 <<Str(L_suoyouzhequanyi)>> \o equity >>)

\* An income statement: a revenue row above the net-profit row.
IncomeStatementOf(periods, profit) ==
    DataFrame(<<H_xiangmu>> \o periods,
              << <<Str(L_yingyeshouru)>> \o [j \in 1..Len(periods) |-> Num(1000)],
                 <<Str(L_jinglirun)>> \o profit >>)

\* An income statement without any profit row.
RevenueOnlyStatement ==
    DataFrame(<<H_xiangmu, Str(D_20231231)>>,
              << <<Str(L_yingyeshouru), Num(1000)>> >>)

BalanceSheets ==
    {BalanceSheetOf(p, a, e) :
        p \in BsPeriods, a \in [1..2 -> RatioCells], e \in [1..2 -> RatioCells]}

\* Income statements whose period headers are written YYYY-MM-DD, all of
\* them or the most recent one only.
DashedStatements ==
    {IncomeStatementOf(<<Str(D_2023_12_31), Str(D_2022_12_31)>>,
                       <<C_number, C_number>>),
     IncomeStatementOf(<<Str(D_2023_12_31), Str(D_20221231)>>,
                       <<C_number, C_number>>)}

IncomeStatements ==
    UNION {{IncomeStatementOf(p, f) : f \in [1..Len(p) -> RatioCells]} :
              p \in IsPeriods}
    \cup DashedStatements
    \cup {RevenueOnlyStatement, EmptyFrame}

\* The year-end period k years back from 20231231, as its header text.
YearEnd(k) == NatStr(20231231 - 10000 * (k - 1))

ManyPeriods == 11

YearEnds(n) == [k \in 1..n |-> Str(YearEnd(k))]

\* Statements covering the last n year-ends, every figure a number except,
\* possibly, the most recent net profit.
LongBalanceSheets ==
    {BalanceSheetOf(YearEnds(n), [k \in 1..n |-> C_number],
                    [k \in 1..n |-> C_number]) : n \in 1..ManyPeriods}

LongIncomeStatements ==
    {IncomeStatementOf(YearEnds(n),
                       [k \in 1..n |-> IF k = 1 THEN c ELSE C_number]) :
        n \in 1..ManyPeriods, c \in RatioCells}

\* An empty cell, and statements of two periods whose earlier figures are
\* all written with thousands separators while the latest ones are anything
\* a cell can hold, the empty text included.
C_blank == Str(<<>>)
CoercedCells == RatioCells \cup {C_blank}
CoercedPeriods == <<Str(D_20231231), Str(D_20221231)>>

CoercedBalanceSheets ==
    {BalanceSheetOf(CoercedPeriods, <<a, C_grouped>>, <<e, C_grouped>>) :
        a \in CoercedCells, e \in CoercedCells}

CoercedIncomeStatements ==
    {IncomeStatementOf(CoercedPeriods, <<p, C_grouped>>) : p \in CoercedCells}

\* A warning or error shown on the page: which text, the figures the text
\* names, and the period it is about.
Msg(id, names, about) == [id |-> id, names |-> names, about |-> about]

\* The warnings and errors of lines 512-640.
PrepareMessages(bs, is, dates, asset_ps, equity_ps, profit_ps) ==
    IF IsEmpty(bs) \/ IsEmpty(is)
    THEN {Msg("statements are empty", {}, <<>>)}
    ELSE IF dates = <<>>
    THEN {Msg("no common dates", {}, <<>>)}
    ELSE LET bl == LabelColumn(bs)
             il == LabelColumn(is)
             no_asset == RowsContaining(bl, asset_ps) = <<>>
             no_equity == RowsContaining(bl, equity_ps) = <<>>
             no_profit == RowsContaining(il, profit_ps) = <<>>
         IN  (IF no_asset
              THEN {Msg("total-assets row not found, trying a fuzzier match",
                        {"total_assets"}, <<>>)} ELSE {})
             \cup
             (IF no_equity
              THEN {Msg("net-equity row not found, trying a fuzzier match",
                        {"net_equity"}, <<>>)} ELSE {})
             \cup
             (IF no_profit
              THEN {Msg("net-profit row not found, trying a fuzzier match",
                        {"net_profit"}, <<>>)} ELSE {})
             \cup
             (IF \/ RowsWithFallback(bl, asset_ps, fuzzy_asset) = <<>>
                 \/ RowsWithFallback(bl, equity_ps, fuzzy_equity) = <<>>
                 \/ RowsWithFallback(il, profit_ps, fuzzy_profit) = <<>>
              THEN {Msg("cannot find the required rows", {}, <<>>)} ELSE {})

\* The warning of one iteration of the loop (lines 707-713), if any.
DateMessages(date) ==
    LET asset_value == AssetValue(date)
        equity_value == EquityValue(date)
        profit_value == ProfitValue(date)
        total_asset == ToFloat(asset_value)
        net_equity == ToFloat(equity_value)
        net_profit == ToFloat(profit_value)
        row == RatioRow(date, total_asset, net_equity, net_profit)
    IN  IF ~AllNotNa(asset_value, equity_value, profit_value)
        THEN {Msg("the period has empty values", {}, date)}
        ELSE IF ValueError \in {total_asset, net_equity, net_profit}
        THEN {Msg("the period's values do not convert", {}, date)}
        ELSE IF ZeroDivisionError \in {row.roa, row.roe}
        THEN {Msg("error reading the period", {}, date)}
        ELSE {}

RatiosStart ==
    /\ rpc = "start"
    /\ rows = NoRows
    /\ common_dates = <<>>
    /\ ratio_data = <<>>
    /\ ratio_result = "none"
    /\ messages = {}
    /\ OnlyRatios

InitRatios ==
    /\ \/ /\ balance_sheet \in BalanceSheets
          /\ income_statement \in IncomeStatements
       \/ /\ balance_sheet \in LongBalanceSheets
          /\ income_statement \in LongIncomeStatements
       \/ /\ balance_sheet \in CoercedBalanceSheets
          /\ income_statement \in CoercedIncomeStatements
    /\ RatiosStart

\* Lines 512-645: the early returns, the common periods and the three rows.
RatiosPrepare ==
    /\ rpc = "start"
    /\ LET dates == CommonDates(balance_sheet, income_statement)
           found == RatiosRows(LabelColumn(balance_sheet),
                               LabelColumn(income_statement))
       IN  IF IsEmpty(balance_sheet) \/ IsEmpty(income_statement)
           THEN /\ rpc' = "done" /\ ratio_result' = "None"
                /\ UNCHANGED <<rows, common_dates>>
           ELSE IF dates = <<>> \/ ~found.found
           THEN /\ rpc' = "done" /\ ratio_result' = "None"
                /\ UNCHANGED <<rows, common_dates>>
           ELSE /\ rpc' = "loop"
                /\ rows' = [NoRows EXCEPT !.found = TRUE,
                                          !.asset = found.asset,
                                          !.equity = found.equity,
                                          !.profit = found.profit]
                /\ common_dates' = dates
                /\ UNCHANGED ratio_result
    /\ messages' = messages \cup
           PrepareMessages(balance_sheet, income_statement,
                           CommonDates(balance_sheet, income_statement),
                           ratios_asset_patterns, ratios_equity_patterns,
                           ratios_profit_patterns)
    /\ UNCHANGED <<balance_sheet, income_statement, ratio_data>>
    /\ UNCHANGED exceptRatios

\* Lines 665-714: one iteration of the loop over the common periods.
RatiosProcessDate ==
    /\ rpc = "loop"
    /\ common_dates # <<>>
    /\ ratio_data' = AfterDate(ratio_data, Head(common_dates))
    /\ common_dates' = Tail(common_dates)
    /\ messages' = messages \cup DateMessages(Head(common_dates))
    /\ UNCHANGED <<balance_sheet, income_statement, rpc, rows, ratio_result>>
    /\ UNCHANGED exceptRatios

\* Lines 716-729: None when no period gave a row, the table otherwise.
RatiosFinish ==
    /\ rpc = "loop"
    /\ common_dates = <<>>
    /\ rpc' = "done"
    /\ ratio_result' = IF ratio_data = <<>> THEN "None" ELSE "DataFrame"
    /\ messages' = IF ratio_data = <<>>
                   THEN messages \cup {Msg("no valid ratio data", {}, <<>>)}
                   ELSE messages
    /\ UNCHANGED <<balance_sheet, income_statement, rows, common_dates,
                   ratio_data>>
    /\ UNCHANGED exceptRatios

NextRatios == RatiosPrepare \/ RatiosProcessDate \/ RatiosFinish

SpecRatios == InitRatios /\ [][NextRatios]_vars

\* What each figure cell says, read by hand, in hundredths.
IsFigure(cell) == cell \in {C_zero, C_number, C_grouped}
Amount(cell) == IF cell = C_zero THEN 0
                ELSE IF cell = C_number THEN 20000
                ELSE 123450

\* The cell of the row labelled `label` under the header `date`.
CellOf(df, label, date) ==
    LET i == CHOOSE r \in 1..Len(df.data) : df.data[r][1] = Str(label)
        j == CHOOSE c \in 1..Len(df.columns) : df.columns[c] = Str(date)
    IN  df.data[i][j]

SharedPeriods ==
    {h.s : h \in (Range(balance_sheet.columns)
                    \cap Range(income_statement.columns)) \ {H_xiangmu}}

OutputRows(date) == {i \in 1..Len(ratio_data) : ratio_data[i].date = date}

\* What a ratio column must hold for the amounts p and base.
ExpectedPercent(p, base) ==
    IF base = 0 THEN None ELSE Quotient(p * 100, base)

\* C9: once get_financial_ratios has returned, every common period whose
\* three figures are numbers has a row; in it ROA is null exactly when total
\* assets are 0 and is net_profit / total_assets * 100 otherwise, ROE is
\* null exactly when net equity is 0 and is net_profit / net_equity * 100
\* otherwise: a zero denominator never costs the period its row.
C9_ZeroDenominators ==
    (rpc = "done" /\ rows.found) =>
        \A d \in SharedPeriods :
            LET a == CellOf(balance_sheet, L_zichanzongji, d)
                e == CellOf(balance_sheet, L_suoyouzhequanyi, d)
                p == CellOf(income_statement, L_jinglirun, d)
            IN  (IsFigure(a) /\ IsFigure(e) /\ IsFigure(p)) =>
                    /\ OutputRows(d) # {}
                    /\ \A i \in OutputRows(d) :
                          /\ ratio_data[i].roa = ExpectedPercent(Amount(p), Amount(a))
                          /\ ratio_data[i].roe = ExpectedPercent(Amount(p), Amount(e))

\* A finished run with a row whose total assets are 0 and whose net profit
\* and net equity are not: ROA is null and ROE is a quotient.
C9_Witness ==
    /\ rpc = "done"
    /\ \E i \in 1..Len(ratio_data) :
          /\ ratio_data[i].total_asset = Float(0)
          /\ ratio_data[i].net_equity.c # 0
          /\ ratio_data[i].net_profit.c # 0
          /\ ratio_data[i].roa = None
          /\ ratio_data[i].roe.kind = "q"

\* C10: once get_financial_ratios has returned with its three rows found,
\* a common period has a row (exactly one) if and only if its three cells are
\* all present and all read as numbers; the rows are for common periods
\* only, and the result is None exactly when there is no row.
C10_RowIffThreeNumbers ==
    (rpc = "done" /\ rows.found) =>
        /\ \A d \in SharedPeriods :
              LET a == CellOf(balance_sheet, L_zichanzongji, d)
                  e == CellOf(balance_sheet, L_suoyouzhequanyi, d)
                  p == CellOf(income_statement, L_jinglirun, d)
              IN  IF IsFigure(a) /\ IsFigure(e) /\ IsFigure(p)
                  THEN Cardinality(OutputRows(d)) = 1
                  ELSE OutputRows(d) = {}
        /\ \A i \in 1..Len(ratio_data) : ratio_data[i].date \in SharedPeriods
        /\ (ratio_result = "None") <=> (ratio_data = <<>>)

\* A finished run over two common periods in which the period processed
\* first had a cell that is present but is no number, and the other period
\* still got its row.
C10_Witness ==
    /\ rpc = "done"
    /\ SharedPeriods = {D_20231231, D_20221231}
    /\ C_dash \in {CellOf(balance_sheet, L_zichanzongji, D_20231231),
                   CellOf(balance_sheet, L_suoyouzhequanyi, D_20231231),
                   CellOf(income_statement, L_jinglirun, D_20231231)}
    /\ Len(ratio_data) = 1
    /\ ratio_data[1].date = D_20221231

\* The calendar day a period header names, as eight digits.
DayOf(header) == WithoutDashes(header.s)

HasRow(df, label) == \E r \in 1..Len(df.data) : df.data[r][1] = Str(label)

RowOf(df, label) == CHOOSE r \in 1..Len(df.data) : df.data[r][1] = Str(label)

\* C11: once get_financial_ratios has returned, for every balance-sheet
\* column and income-statement column that name the same calendar day,
\* whether written YYYYMMDD or YYYY-MM-DD, and whose three figures are
\* numbers, the output has a row for that day.
C11_SameDayIsCommon ==
    (/\ rpc = "done"
     /\ ~IsEmpty(balance_sheet) /\ ~IsEmpty(income_statement)
     /\ HasRow(income_statement, L_jinglirun)) =>
        \A j \in 2..Len(balance_sheet.columns) :
          \A k \in 2..Len(income_statement.columns) :
            LET a == balance_sheet.data[RowOf(balance_sheet, L_zichanzongji)][j]
                e == balance_sheet.data[RowOf(balance_sheet, L_suoyouzhequanyi)][j]
                p == income_statement.data[RowOf(income_statement, L_jinglirun)][k]
            IN  (/\ DayOf(balance_sheet.columns[j]) = DayOf(income_statement.columns[k])
                 /\ IsFigure(a) /\ IsFigure(e) /\ IsFigure(p)) =>
                    \E i \in 1..Len(ratio_data) :
                        WithoutDashes(ratio_data[i].date)
                            = DayOf(balance_sheet.columns[j])

-----------------------------------------------------------------------------
(* get_financial_ratios (app_20250323155301) *)

\* asset_patterns, equity_patterns, profit_patterns of the earlier version:
\* the later lists without their last entries.
ratios155_asset_patterns == SubSeq(ratios_asset_patterns, 1, 5)
ratios155_equity_patterns == SubSeq(ratios_equity_patterns, 1, 6)
ratios155_profit_patterns == SubSeq(ratios_profit_patterns, 1, 7)

RatiosRows155(bs, is) ==
    LET asset_rows == RowsWithFallback(bs, ratios155_asset_patterns,
                                       fuzzy_asset)
        equity_rows == RowsWithFallback(bs, ratios155_equity_patterns,
                                        fuzzy_equity)
        profit_rows == RowsWithFallback(is, ratios155_profit_patterns,
                                        fuzzy_profit)
    IN  IF asset_rows = <<>> \/ equity_rows = <<>> \/ profit_rows = <<>>
        THEN [found |-> FALSE, asset |-> 0, equity |-> 0, profit |-> 0]
        ELSE [found |-> TRUE,
              asset |-> FirstRow(asset_rows),
              equity |-> FirstRow(equity_rows),
              profit |-> FirstRow(profit_rows)]

PeriodCap == 10

\* common_dates[:min(10, len(common_dates))]
MostRecent(dates) ==
    SubSeq(dates, 1, IF Len(dates) < PeriodCap THEN Len(dates) ELSE PeriodCap)

InitRatios155 ==
    /\ balance_sheet \in LongBalanceSheets
    /\ income_statement \in LongIncomeStatements \cup {EmptyFrame}
    /\ RatiosStart

\* Lines 577-722: the early returns, the common periods cut to the ten most
\* recent, and the three rows.
RatiosPrepare155 ==
    /\ rpc = "start"
    /\ LET dates == MostRecent(CommonDates(balance_sheet, income_statement))
           found == RatiosRows155(LabelColumn(balance_sheet),
                                  LabelColumn(income_statement))
       IN  IF IsEmpty(balance_sheet) \/ IsEmpty(income_statement)
           THEN /\ rpc' = "done" /\ ratio_result' = "None"
                /\ UNCHANGED <<rows, common_dates>>
           ELSE IF dates = <<>> \/ ~found.found
           THEN /\ rpc' = "done" /\ ratio_result' = "None"
                /\ UNCHANGED <<rows, common_dates>>
           ELSE /\ rpc' = "loop"
                /\ rows' = [NoRows EXCEPT !.found = TRUE,
                                          !.asset = found.asset,
                                          !.equity = found.equity,
                                          !.profit = found.profit]
                /\ common_dates' = dates
                /\ UNCHANGED ratio_result
    /\ messages' = messages \cup
           PrepareMessages(balance_sheet, income_statement,
                           MostRecent(CommonDates(balance_sheet,
                                                  income_statement)),
                           ratios155_asset_patterns,
                           ratios155_equity_patterns,
                           ratios155_profit_patterns)
    /\ UNCHANGED <<balance_sheet, income_statement, ratio_data>>
    /\ UNCHANGED exceptRatios

NextRatios155 == RatiosPrepare155 \/ RatiosProcessDate \/ RatiosFinish

SpecRatios155 == InitRatios155 /\ [][NextRatios155]_vars

\* The common periods whose three figures are numbers.
ValidPeriods ==
    {d \in SharedPeriods :
        /\ IsFigure(CellOf(balance_sheet, L_zichanzongji, d))
        /\ IsFigure(CellOf(balance_sheet, L_suoyouzhequanyi, d))
        /\ IsFigure(CellOf(income_statement, L_jinglirun, d))}

\* C12: once get_financial_ratios has returned with its three rows found,
\* the periods of the output rows are exactly the common periods with three
\* valid figures, however many there are, each once, most recent first.
C12_NoCapOnPeriods ==
    (rpc = "done" /\ rows.found) =>
        /\ {ratio_data[i].date : i \in 1..Len(ratio_data)} = ValidPeriods
        /\ \A i, j \in 1..Len(ratio_data) :
              i < j => NatOf(ratio_data[i].date) > NatOf(ratio_data[j].date)

-----------------------------------------------------------------------------
(* get_financial_metrics (app_20250323223652), the whole function *)

\* df.columns.astype(str)
WithTextHeaders(df) ==
    [df EXCEPT !.columns = [j \in 1..Len(df.columns) |->
                               Str(PyStr(df.columns[j]))]]

\* df[first_col] = df[first_col].astype(str)
WithTextFirstColumn(df) ==
    [df EXCEPT !.data = [i \in 1..Len(df.data) |->
                            [df.data[i] EXCEPT ![1] = Str(PyStr(df.data[i][1]))]]]

project_col_candidates ==
    << K_xiangmu, <<"bao", "biao", "xiang", "mu4">>, K_kemu,
       <<"kuai", "ji4", "ke", "mu4">>, <<"xiang", "mu4", "ming", "cheng2">> >>

financial_terms ==
    << L_yingyeshouru, L_yingyezongshouru, L_yingyelirun, L_jinglirun,
       <<"li", "run", "zong", "e">> >>

\* The text of each cell of column j; a cell that is no text has no match
\* under str.contains(..., na=False) and counts as the empty text.
TextsOf(df, j) ==
    [i \in 1..Len(df.data) |->
        IF df.data[i][j].t = "str" THEN df.data[i][j].s ELSE <<>>]

\* The .str accessor exists for a column that holds text.
HasStrAccessor(df, j) == \E i \in 1..Len(df.data) : df.data[i][j].t = "str"

\* date_pattern.search(text) for 20\d{2}[-/nian]\d{1,2}[-/yue]?
DatePatternFound(text) ==
    \E i \in 1..(Len(text) - 5) :
        /\ text[i] = "2" /\ text[i + 1] = "0"
        /\ IsDigit(text[i + 2]) /\ IsDigit(text[i + 3])
        /\ text[i + 4] \in {"-", "/", "nian"}
        /\ IsDigit(text[i + 5])

H_riqi == Str(K_riqi)

\* Lines 222-230: income_statement.T, the first row as headers, the old
\* headers as the column 'riqi'.
MetricsTransposed(df) ==
    DataFrame(<<H_riqi>> \o Column(df, 1),
              [j \in 1..(Len(df.columns) - 1) |->
                  <<df.columns[j + 1]>> \o
                  [i \in 1..Len(df.data) |-> df.data[i][j + 1]]])

\* Lines 196-236: the table the lookups run on and its project_col.
ProjectColumn(df) ==
    LET named == {k \in 1..Len(project_col_candidates) :
                     ColIndex(df, Str(project_col_candidates[k])) # 0}
        first_named == CHOOSE k \in named : \A m \in named : k <= m
        has_terms == \E i \in 1..Len(df.data) :
                        ContainsAny(df.data[i][1].s, financial_terms)
        has_dates == \E j \in 1..Len(df.columns) :
                        /\ df.data[1][j].t = "str"
                        /\ DatePatternFound(df.data[1][j].s)
    IN  IF named # {}
        THEN [table |-> df,
              col |-> ColIndex(df, Str(project_col_candidates[first_named]))]
        ELSE IF has_terms THEN [table |-> df, col |-> 1]
        ELSE IF has_dates THEN [table |-> MetricsTransposed(df), col |-> 1]
        ELSE [table |-> df, col |-> 1]

\* pd.to_numeric(value, errors='coerce'): a number, or NaN for a missing
\* value and for text that is no plain decimal (commas are not removed).
ToNumeric(value) ==
    CASE value.t = "num" -> Float(100 * value.n)
      [] value.t = "nan" -> FloatNaN
      [] OTHER -> LET f == PyFloat(value.s)
                  IN  IF f = ValueError THEN FloatNaN ELSE f

\* pd.to_datetime(value, errors='coerce'): the day, or NaT.
NaT == [nat |-> TRUE, day |-> 0]
Timestamp(day) == [nat |-> FALSE, day |-> day]
ToDatetime(value) ==
    IF value.t = "str" /\ MatchesDatePattern(value.s)
    THEN Timestamp(NatOf(WithoutDashes(value.s)))
    ELSE NaT

\* One row of financial_metrics.
MetricsEntry(date, revenue, profit) ==
    [date |-> date, revenue |-> revenue, profit |-> profit]

\* frame[name] = row, for a row taken out of another table: the values are
\* placed by label, and the frame's labels are 0 .. n-1.
AlignedToRows(tbl, row, n) ==
    [i \in 1..n |->
        IF \E j \in 1..Len(tbl.columns) : tbl.columns[j] = Num(i - 1)
        THEN tbl.data[row][CHOOSE j \in 1..Len(tbl.columns) :
                                 tbl.columns[j] = Num(i - 1)]
        ELSE NaN]

\* Lines 264-267: the branch taken when the table has a column 'riqi'.
SeriesFromDateColumn(tbl, revenue_row, profit_row) ==
    LET n == Len(tbl.data)
        dates == Column(tbl, ColIndex(tbl, H_riqi))
        revenue == AlignedToRows(tbl, revenue_row, n)
        profit == AlignedToRows(tbl, profit_row, n)
    IN  [i \in 1..n |-> MetricsEntry(dates[i], ToNumeric(revenue[i]),
                                     ToNumeric(profit[i]))]

\* Lines 269-293: one entry per column, other than project_col, in which
\* both rows hold a number.
RECURSIVE SeriesFromColumns(_, _, _, _, _)
SeriesFromColumns(tbl, col, revenue_row, profit_row, j) ==
    IF j > Len(tbl.columns) THEN <<>>
    ELSE LET revenue_value == ToNumeric(tbl.data[revenue_row][j])
             profit_value == ToNumeric(tbl.data[profit_row][j])
             rest == SeriesFromColumns(tbl, col, revenue_row, profit_row, j + 1)
         IN  IF tbl.columns[j] = tbl.columns[col] THEN rest
             ELSE IF revenue_value # FloatNaN /\ profit_value # FloatNaN
             THEN <<MetricsEntry(tbl.columns[j], revenue_value, profit_value)>>
                  \o rest
             ELSE rest

\* sort_values('riqi', ascending=False): latest first, NaT last, entries of
\* one day in their order.
RECURSIVE SortedLatestFirst(_)
SortedLatestFirst(entries) ==
    IF entries = <<>> THEN <<>>
    ELSE LET Before(i, k) ==
                 \/ ~entries[i].date.nat /\ entries[k].date.nat
                 \/ /\ ~entries[i].date.nat /\ ~entries[k].date.nat
                    /\ entries[i].date.day > entries[k].date.day
                 \/ /\ entries[i].date = entries[k].date
                    /\ i < k
             top == CHOOSE i \in 1..Len(entries) :
                        \A k \in 1..Len(entries) : k = i \/ Before(i, k)
         IN  <<entries[top]>>
             \o SortedLatestFirst([k \in 1..(Len(entries) - 1) |->
                                      IF k < top THEN entries[k]
                                      ELSE entries[k + 1]])

\* Lines 300-305: the dates become timestamps and the rows are sorted.
WithTimestamps(entries) ==
    [i \in 1..Len(entries) |->
        [entries[i] EXCEPT !.date = ToDatetime(entries[i].date)]]

ReturnsNone == [kind |-> "None", series |-> <<>>]
RaisesAttributeError == [kind |-> "AttributeError", series |-> <<>>]
ReturnsSeries(entries) == [kind |-> "series", series |-> entries]

\* get_financial_metrics(income_statement, stock_code), lines 184-312.
get_financial_metrics(df) ==
    IF IsEmpty(df) THEN ReturnsNone
    ELSE
    LET pc == ProjectColumn(WithTextFirstColumn(WithTextHeaders(df)))
        tbl == pc.table
        found == MetricsRows(TextsOf(tbl, pc.col))
        entries == IF ColIndex(tbl, H_riqi) # 0
                   THEN SeriesFromDateColumn(tbl, found.revenue, found.profit)
                   ELSE SeriesFromColumns(tbl, pc.col, found.revenue,
                                          found.profit, 1)
    IN  IF ~HasStrAccessor(tbl, pc.col) THEN RaisesAttributeError
        ELSE IF found.revenue = 0 \/ found.profit = 0 THEN ReturnsNone
        ELSE IF entries = <<>> THEN ReturnsNone
        ELSE ReturnsSeries(SortedLatestFirst(WithTimestamps(entries)))

-----------------------------------------------------------------------------
(* The income statements handed to get_financial_metrics *)

H_mingcheng == Str(<<"ming", "cheng2">>)

\* Columns of two rows each.
MetricsColumns ==
    { \* item labels, under several headers
      [h |-> H_xiangmu, v |-> <<Str(L_yingyeshouru), Str(L_jinglirun)>>],
      [h |-> H_riqi, v |-> <<Str(L_yingyeshouru), Str(L_jinglirun)>>],
      [h |-> H_mingcheng, v |-> <<Str(L_yingyeshouru), Str(L_jinglirun)>>],
      \* labels without a net-profit row, and without a revenue row
      [h |-> H_mingcheng, v |-> <<Str(L_yingyeshouru), Str(L_yingyelirun)>>],
      [h |-> H_mingcheng, v |-> <<Str(L_yingyelirun), Str(L_jinglirun)>>],
      \* a column 'xiangmu' of line numbers
      [h |-> H_xiangmu, v |-> <<Num(1), Num(2)>>],
      \* the periods of a table that has one row per period
      [h |-> Str(K_baogaoqi), v |-> <<Str(D_2023_12_31), Str(D_2022_12_31)>>],
      \* period columns
      [h |-> Str(D_20231231), v |-> <<Num(1000), Num(200)>>],
      [h |-> Str(D_20231231), v |-> <<Num(1000), NaN>>],
      [h |-> Str(D_20221231), v |-> <<Num(800), Num(150)>>],
      [h |-> Str(D_20221231), v |-> <<C_dash, Num(150)>>],
      [h |-> Str(D_20221231), v |-> <<C_grouped, Num(150)>>],
      \* item columns of a table that has one row per period
      [h |-> Str(L_yingyeshouru), v |-> <<Num(1000), Num(800)>>],
      [h |-> Str(L_jinglirun), v |-> <<Num(200), Num(150)>>],
      [h |-> Str(L_jinglirun), v |-> <<Num(200), NaN>>] }

MetricsTables ==
    {TableOf(cs) : cs \in {c \in SeqsUpTo(MetricsColumns, MaxCols) :
                             Len(c) >= 2 /\ DistinctHeaders(c)}}

InitMetrics ==
    /\ income_table \in MetricsTables
    /\ mpc = "start"
    /\ metrics_result = NoMetrics
    /\ financial_data = NoFrame
    /\ IdleMetrics155
    /\ messages = {}
    /\ OnlyMetrics

\* app, lines 1948-1950: get_financial_metrics(income_statement, stock_code).
\* The function shows no warning or error of its own.
GetFinancialMetrics ==
    /\ mpc = "start"
    /\ metrics_result' = get_financial_metrics(income_table)
    /\ mpc' = "returned"
    /\ UNCHANGED <<income_table, financial_data, messages, metric155Vars>>
    /\ UNCHANGED exceptMetrics

(* plot_financial_metrics (app_20250323223652, lines 314-354): the frame   *)
(* of the growth chart                                                     *)

\* The null of a growth column, an infinite growth, and the NaN a NaN
\* operand gives.
GrowthNaN == [kind |-> "nan", num |-> 0, den |-> 0]
GrowthInf == [kind |-> "inf", num |-> 0, den |-> 0]

\* A faulty variant of GrowthPercent: the division is made whatever the
\* base is, and a zero base gives numpy's inf.
UnguardedGrowth(value, base) ==
    IF value = FloatNaN \/ base = FloatNaN THEN GrowthNaN
    ELSE IF base.c = 0 THEN GrowthInf
    ELSE Quotient((value.c - base.c) * 100, base.c)

\* (value / base - 1) * 100 if base != 0 else None
GrowthPercent(value, base) ==
    IF base # FloatNaN /\ base.c = 0 THEN None
    ELSE IF value = FloatNaN \/ base = FloatNaN THEN GrowthNaN
    ELSE Quotient((value.c - base.c) * 100, base.c)

\* sort_values('riqi'): earliest first, NaT last, entries of one day in
\* their order.
RECURSIVE SortedEarliestFirst(_)
SortedEarliestFirst(entries) ==
    IF entries = <<>> THEN <<>>
    ELSE LET Before(i, k) ==
                 \/ ~entries[i].date.nat /\ entries[k].date.nat
                 \/ /\ ~entries[i].date.nat /\ ~entries[k].date.nat
                    /\ entries[i].date.day < entries[k].date.day
                 \/ /\ entries[i].date = entries[k].date
                    /\ i < k
             top == CHOOSE i \in 1..Len(entries) :
                        \A k \in 1..Len(entries) : k = i \/ Before(i, k)
         IN  <<entries[top]>>
             \o SortedEarliestFirst([k \in 1..(Len(entries) - 1) |->
                                        IF k < top THEN entries[k]
                                        ELSE entries[k + 1]])

\* One row of a frame with its two growth columns.
GrowthRow(date, revenue, profit, revenue_growth, profit_growth) ==
    [date |-> date, revenue |-> revenue, profit |-> profit,
     revenue_growth |-> revenue_growth, profit_growth |-> profit_growth]

\* Lines 336-346: [None] + [growth of row i over row i-1 for i in 1..n-1],
\* the entries lying earliest first.
WithGrowthOverPrevious(entries) ==
    [k \in 1..Len(entries) |->
        GrowthRow(entries[k].date, entries[k].revenue, entries[k].profit,
                  IF k = 1 THEN None
                  ELSE GrowthPercent(entries[k].revenue, entries[k - 1].revenue),
                  IF k = 1 THEN None
                  ELSE GrowthPercent(entries[k].profit, entries[k - 1].profit))]

InsufficientData == [kind |-> "insufficient", data |-> <<>>]
FrameOf(entries) == [kind |-> "frame", data |-> entries]

\* Lines 314-354: nothing is built from fewer than two entries; otherwise
\* the entries are sorted from old to new and the growth columns are added.
plot_financial_metrics(series) ==
    IF Len(series) < 2 THEN InsufficientData
    ELSE FrameOf(WithGrowthOverPrevious(SortedEarliestFirst(series)))

\* app, lines 1973-1992: the charts when the three lists are non-empty, the
\* warning otherwise.  An exception of get_financial_metrics is caught by
\* nothing and ends the page with its traceback.
AppShowsMetrics ==
    /\ mpc = "returned"
    /\ mpc' = "shown"
    /\ financial_data' =
          IF metrics_result.kind = "series" /\ metrics_result.series # <<>>
          THEN plot_financial_metrics(metrics_result.series)
          ELSE financial_data
    /\ messages' =
          CASE metrics_result.kind = "None" ->
                 messages \cup {Msg("cannot extract revenue and net profit data; check the income statement shown above",
                                    {"revenue", "net_profit"}, <<>>)}
            [] metrics_result.kind = "AttributeError" ->
                 messages \cup {Msg("AttributeError traceback", {}, <<>>)}
            [] Len(metrics_result.series) < 2 ->
                 messages \cup {Msg("not enough data to draw the metrics chart",
                                    {}, <<>>)}
            [] OTHER -> messages
    /\ UNCHANGED <<income_table, metrics_result, metric155Vars>>
    /\ UNCHANGED exceptMetrics

NextMetrics == GetFinancialMetrics \/ AppShowsMetrics

SpecMetrics == InitMetrics /\ [][NextMetrics]_vars

\* C13: every entry of the series get_financial_metrics returns has a
\* revenue and a net profit that are numbers, not NaN.
C13_SeriesHasNoNulls ==
    (mpc # "start" /\ metrics_result.kind = "series") =>
        \A i \in 1..Len(metrics_result.series) :
            /\ metrics_result.series[i].revenue.kind = "float"
            /\ metrics_result.series[i].profit.kind = "float"

\* Some cell of the table is text that contains one of the patterns.
SomeLabelMatches(df, patterns) ==
    \E i \in 1..Len(df.data) : \E j \in 1..Len(df.columns) :
        \/ df.data[i][j].t = "str" /\ ContainsAny(df.data[i][j].s, patterns)
        \/ df.columns[j].t = "str" /\ ContainsAny(df.columns[j].s, patterns)

\* C19: for a non-empty income statement in which no label matches a
\* revenue pattern, or none matches a net-profit pattern,
\* get_financial_metrics returns (None, None, None) and raises nothing.
C19_MissingRowGivesNone ==
    (/\ mpc # "start"
     /\ \/ ~SomeLabelMatches(income_table, metrics_revenue_patterns)
        \/ ~SomeLabelMatches(income_table, metrics_profit_patterns)) =>
        metrics_result = ReturnsNone

\* The figures get_financial_metrics looked for and did not find.
MissingMetricsFigures ==
    IF mpc # "shown" \/ IsEmpty(income_table) \/ metrics_result.kind # "None"
    THEN {}
    ELSE LET pc == ProjectColumn(WithTextFirstColumn(WithTextHeaders(income_table)))
             found == MetricsRows(TextsOf(pc.table, pc.col))
         IN  (IF found.revenue = 0 THEN {"revenue"} ELSE {})
             \cup (IF found.profit = 0 THEN {"net_profit"} ELSE {})

\* The figures get_financial_ratios looked for and did not find.
MissingRatioFigures ==
    IF \/ rpc # "done"
       \/ IsEmpty(balance_sheet) \/ IsEmpty(income_statement)
       \/ SharedPeriods = {}
    THEN {}
    ELSE LET bl == LabelColumn(balance_sheet)
             il == LabelColumn(income_statement)
         IN  (IF RowsWithFallback(bl, ratios_asset_patterns, fuzzy_asset) = <<>>
              THEN {"total_assets"} ELSE {})
             \cup
             (IF RowsWithFallback(bl, ratios_equity_patterns, fuzzy_equity) = <<>>
              THEN {"net_equity"} ELSE {})
             \cup
             (IF RowsWithFallback(il, ratios_profit_patterns, fuzzy_profit) = <<>>
              THEN {"net_profit"} ELSE {})

\* C20: once the analysis has shown its messages, every figure that could
\* not be located is named by a message that names missing figures only
\* (a message listing a figure that was found does not tell which one is
\* missing).
C20_MissingFigureIsNamed ==
    \A f \in MissingMetricsFigures \cup MissingRatioFigures :
        \E m \in messages :
            /\ f \in m.names
            /\ m.names \subseteq MissingMetricsFigures \cup MissingRatioFigures

-----------------------------------------------------------------------------
(* get_financial_metrics (app_20250323155301, lines 206-418), for an       *)
(* income statement whose first column holds the item labels               *)

\* Line 225: does one of the first ten values of the first column name
\* revenue, profit, cost or expense?
has_financial_terms(df) ==
    LET sample_values == Prefix(Column(df, 1), SampleRows10)
    IN  \E i \in 1..Len(sample_values) :
           \/ Contains(PyStr(sample_values[i]), <<"shou", "ru">>)
           \/ Contains(PyStr(sample_values[i]), <<"li", "run">>)
           \/ Contains(PyStr(sample_values[i]), <<"cheng", "ben">>)
           \/ Contains(PyStr(sample_values[i]), <<"fei", "yong">>)

\* Lines 279-283: [str(x) for x in item_values]
Labels155(df) == [i \in 1..Len(df.data) |-> PyStr(df.data[i][1])]

\* bool(value): a number other than 0, a text other than ''.
Truthy(value) ==
    CASE value.t = "num" -> value.n # 0
      [] value.t = "str" -> value.s # <<>>
      [] OTHER -> TRUE

\* float(value), the separators left in place.
Float155(value) ==
    IF value.t = "num" THEN Float(100 * value.n) ELSE PyFloat(PyStr(value))

\* Lines 347-363: the periods of one row whose cell is present, truthy and
\* converted by float().
Extracted(tbl, row) ==
    {j \in 2..Len(tbl.columns) :
        /\ NotNa(tbl.data[row][j])
        /\ Truthy(tbl.data[row][j])
        /\ Float155(tbl.data[row][j]) # ValueError}

\* The warnings of lines 352 and 359.
ExtractionMessages(tbl, revenue_row, profit_row) ==
    {Msg("cannot convert revenue value to a number", {"revenue"},
         PyStr(tbl.columns[j])) :
        j \in {k \in 2..Len(tbl.columns) :
                 /\ NotNa(tbl.data[revenue_row][k])
                 /\ Truthy(tbl.data[revenue_row][k])
                 /\ Float155(tbl.data[revenue_row][k]) = ValueError}}
    \cup
    {Msg("cannot convert net profit value to a number", {"net_profit"},
         PyStr(tbl.columns[j])) :
        j \in {k \in 2..Len(tbl.columns) :
                 /\ NotNa(tbl.data[profit_row][k])
                 /\ Truthy(tbl.data[profit_row][k])
                 /\ Float155(tbl.data[profit_row][k]) = ValueError}}

\* data[str(date)]: the value of the last column of that name.
ValueAt(tbl, row, cols, date) ==
    LET j == CHOOSE k \in cols :
                 /\ PyStr(tbl.columns[k]) = date
                 /\ \A m \in cols : PyStr(tbl.columns[m]) = date => m <= k
    IN  Float155(tbl.data[row][j])

\* Lines 400-410: [None] + [growth of row i over row i+1 for i in 0..n-2],
\* the entries lying latest first.
WithGrowthList155(entries) ==
    [k \in 1..Len(entries) |->
        GrowthRow(entries[k].date, entries[k].revenue, entries[k].profit,
                  IF k = 1 THEN None
                  ELSE GrowthPercent(entries[k - 1].revenue,
                                     entries[k].revenue),
                  IF k = 1 THEN None
                  ELSE GrowthPercent(entries[k - 1].profit,
                                     entries[k].profit))]

ReturnsNoFrame == [kind |-> "None", data |-> <<>>]

\* Lines 206-418.
get_financial_metrics155(df) ==
    IF IsEmpty(df) \/ Len(df.columns) <= 1 THEN ReturnsNoFrame
    ELSE
    LET found == Metrics155Rows(Labels155(df))
        revenue_cols == Extracted(df, found.revenue)
        profit_cols == Extracted(df, found.profit)
        dates ==
            MostRecent(SortedDescending(
                {PyStr(df.columns[j]) : j \in revenue_cols}
                \cap {PyStr(df.columns[j]) : j \in profit_cols}))
        entries ==
            [k \in 1..Len(dates) |->
                MetricsEntry(dates[k],
                             ValueAt(df, found.revenue, revenue_cols,
                                     dates[k]),
                             ValueAt(df, found.profit, profit_cols,
                                     dates[k]))]
    IN  IF ~found.found THEN ReturnsNoFrame
        ELSE IF revenue_cols = {} \/ profit_cols = {} THEN ReturnsNoFrame
        ELSE IF dates = <<>> THEN ReturnsNoFrame
        ELSE FrameOf(WithGrowthList155(entries))

\* The warnings and errors the function shows.
Metrics155Messages(df) ==
    IF IsEmpty(df) THEN {Msg("income statement is empty", {}, <<>>)}
    ELSE IF Len(df.columns) <= 1
    THEN {Msg("at least an item column and date columns are needed", {}, <<>>)}
    ELSE
    LET labels == Labels155(df)
        found == Metrics155Rows(labels)
        lookup ==
            (IF RowsContaining(labels, metrics155_revenue_patterns) = <<>>
             THEN {Msg("revenue row not found, trying a fuzzier match",
                       {"revenue"}, <<>>)}
             ELSE {})
            \cup
            (IF RowsContaining(labels, metrics155_profit_patterns) = <<>>
             THEN {Msg("net profit row not found, trying a fuzzier match",
                       {"net_profit"}, <<>>)}
             ELSE {})
    IN  IF ~found.found
        THEN lookup \cup {Msg("cannot find the revenue or net profit row",
                              {"revenue", "net_profit"}, <<>>)}
        ELSE lookup
             \cup ExtractionMessages(df, found.revenue, found.profit)
             \cup (IF Extracted(df, found.revenue) = {}
                      \/ Extracted(df, found.profit) = {}
                   THEN {Msg("cannot extract valid financial data", {}, <<>>)}
                   ELSE IF get_financial_metrics155(df).kind = "None"
                   THEN {Msg("no date common to revenue and net profit",
                             {}, <<>>)}
                   ELSE {})

-----------------------------------------------------------------------------
(* The growth specification: one income statement of three year-end        *)
(* periods, handed to get_financial_metrics and the page of                *)
(* app_20250323223652, and to get_financial_metrics of app_20250323155301. *)

C_zero_text == Str(<<"0">>)

RevenueCells == {Num(1000), Num(800), Num(0), C_zero_text, NaN}
ProfitCells == {Num(200), Num(150), C_zero_text}

\* The period columns from the latest to the earliest, or the reverse.
GrowthPeriods == {<<1, 2, 3>>, <<3, 2, 1>>}

GrowthTables ==
    {DataFrame(<<H_xiangmu>> \o [j \in 1..3 |-> Str(YearEnd(ps[j]))],
               << <<Str(L_yingyeshouru)>> \o revenue,
                  <<Str(L_jinglirun)>> \o profit >>) :
        ps \in GrowthPeriods,
        revenue \in [1..3 -> RevenueCells],
        profit \in [1..3 -> ProfitCells]}

InitGrowth ==
    /\ income_table \in {t \in GrowthTables : has_financial_terms(t)}
    /\ mpc = "start"
    /\ metrics_result = NoMetrics
    /\ financial_data = NoFrame
    /\ m155pc = "start"
    /\ metrics155_result = NoFrame
    /\ messages = {}
    /\ OnlyMetrics

\* app_20250323155301: get_financial_metrics(income_statement).
GetFinancialMetrics155 ==
    /\ m155pc = "start"
    /\ metrics155_result' = get_financial_metrics155(income_table)
    /\ messages' = messages \cup Metrics155Messages(income_table)
    /\ m155pc' = "returned"
    /\ UNCHANGED <<income_table, mpc, metrics_result, financial_data>>
    /\ UNCHANGED exceptMetrics

NextGrowth ==
    \/ GetFinancialMetrics
    \/ AppShowsMetrics
    \/ GetFinancialMetrics155

SpecGrowth == InitGrowth /\ [][NextGrowth]_vars

\* The growth of value over base that the specification describes, for two
\* numbers and a base other than 0.
ExpectedGrowth(value, base) ==
    [kind |-> "q", num |-> (value.c - base.c) * 100, den |-> base.c]

IsNumber(value) == value.kind = "float"

\* C14: in the frame get_financial_metrics (app_20250323155301) returns,
\* whose rows lie latest first, the growth stored on the row of a period is
\* the growth of that period's value over the value of the period just
\* before it, and the row of the earliest period has no growth.
C14_GrowthOnLaterPeriod ==
    metrics155_result.kind = "frame" =>
        LET data == metrics155_result.data
            n == Len(data)
        IN  /\ data[n].revenue_growth = None
            /\ data[n].profit_growth = None
            /\ \A k \in 1..(n - 1) :
                  /\ data[k + 1].revenue.c # 0 =>
                        data[k].revenue_growth =
                           ExpectedGrowth(data[k].revenue, data[k + 1].revenue)
                  /\ data[k + 1].profit.c # 0 =>
                        data[k].profit_growth =
                           ExpectedGrowth(data[k].profit, data[k + 1].profit)


\* The growth the code stores beside a value, given the base it divides by:
\* null for a base of exactly 0, the quotient for two numbers otherwise,
\* and never an infinity or an error.
GuardedGrowth(growth, value, base) ==
    /\ growth.kind \in {"None", "q", "nan"}
    /\ IsNumber(base) /\ base.c = 0 => growth = None
    /\ IsNumber(base) /\ base.c # 0 /\ IsNumber(value) =>
          growth = ExpectedGrowth(value, base)

\* C15: the growth computation never divides by zero.  In the frame of
\* plot_financial_metrics (rows earliest first, each row's base the row
\* before it) and in the frame of get_financial_metrics of
\* app_20250323155301 (rows latest first, each stored growth's base the row
\* it is stored on), a base of exactly 0 gives a null growth and every other
\* growth is still computed.
C15_ZeroBaseGivesNull ==
    /\ financial_data.kind = "frame" =>
          \A k \in 2..Len(financial_data.data) :
             LET row == financial_data.data[k]
                 base == financial_data.data[k - 1]
             IN  /\ GuardedGrowth(row.revenue_growth, row.revenue, base.revenue)
                 /\ GuardedGrowth(row.profit_growth, row.profit, base.profit)
    /\ metrics155_result.kind = "frame" =>
          \A k \in 2..Len(metrics155_result.data) :
             LET row == metrics155_result.data[k]
                 value == metrics155_result.data[k - 1]
             IN  /\ GuardedGrowth(row.revenue_growth, value.revenue, row.revenue)
                 /\ GuardedGrowth(row.profit_growth, value.profit, row.profit)

\* Three periods in both frames, the revenue of the middle one exactly 0:
\* one revenue growth is null for its zero base, and a growth beside it is
\* computed.
C15_Witness ==
    /\ financial_data.kind = "frame"
    /\ metrics155_result.kind = "frame"
    /\ Len(financial_data.data) = 3
    /\ Len(metrics155_result.data) = 3
    /\ financial_data.data[2].revenue = Float(0)
    /\ financial_data.data[3].revenue_growth = None
    /\ financial_data.data[2].revenue_growth.kind = "q"
    /\ financial_data.data[3].profit_growth.kind = "q"
    /\ metrics155_result.data[2].revenue = Float(0)
    /\ metrics155_result.data[2].revenue_growth = None
    /\ metrics155_result.data[3].revenue_growth.kind = "q"
    /\ metrics155_result.data[2].profit_growth.kind = "q"


\* The cells that give no value: the placeholder, the empty text, a missing
\* value.
GivesNoValue(cell) == cell \in {C_dash, C_blank, NaN}

\* C16: the cell coercion of get_financial_ratios is total.  Once the
\* function has returned with its three rows found, no row of the output
\* holds an exception in place of a number; a common period one of whose
\* three cells is '-', '' or missing has no row (it is not read as zero);
\* and a common period whose three cells are numbers has a row in which a
\* cell written '1,234.50' is read as 1234.50.
C16_CoercionIsTotal ==
    (rpc = "done" /\ rows.found) =>
        /\ ratio_result \in {"None", "DataFrame"}
        /\ \A i \in 1..Len(ratio_data) :
              /\ ratio_data[i].total_asset.kind = "float"
              /\ ratio_data[i].net_equity.kind = "float"
              /\ ratio_data[i].net_profit.kind = "float"
        /\ \A d \in SharedPeriods :
              LET a == CellOf(balance_sheet, L_zichanzongji, d)
                  e == CellOf(balance_sheet, L_suoyouzhequanyi, d)
                  p == CellOf(income_statement, L_jinglirun, d)
              IN  /\ (GivesNoValue(a) \/ GivesNoValue(e) \/ GivesNoValue(p))
                        => OutputRows(d) = {}
                  /\ (IsFigure(a) /\ IsFigure(e) /\ IsFigure(p)) =>
                        \E i \in OutputRows(d) :
                           /\ a = C_grouped =>
                                 ratio_data[i].total_asset = Float(123450)
                           /\ e = C_grouped =>
                                 ratio_data[i].net_equity = Float(123450)
                           /\ p = C_grouped =>
                                 ratio_data[i].net_profit = Float(123450)

\* A finished run in which the latest period had an empty cell and got no
\* row, while the earlier period, all three figures written '1,234.50', got
\* its row with 1234.50 for each of them.
C16_Witness ==
    /\ rpc = "done"
    /\ rows.found
    /\ SharedPeriods = {D_20231231, D_20221231}
    /\ C_blank \in {CellOf(balance_sheet, L_zichanzongji, D_20231231),
                    CellOf(balance_sheet, L_suoyouzhequanyi, D_20231231),
                    CellOf(income_statement, L_jinglirun, D_20231231)}
    /\ CellOf(balance_sheet, L_zichanzongji, D_20221231) = C_grouped
    /\ Len(ratio_data) = 1
    /\ ratio_data[1].date = D_20221231
    /\ ratio_data[1].total_asset = Float(123450)
    /\ ratio_data[1].net_equity = Float(123450)
    /\ ratio_data[1].net_profit = Float(123450)

-----------------------------------------------------------------------------
(* download_financial_reports (app_20250323223652, lines 55-135) and the   *)
(* download script (download_financial_data_20250323150959, lines 43-111)  *)

FT_BS == <<"b", "a", "l", "a", "n", "c", "e", "_", "s", "h", "e", "e", "t">>
FT_IS == <<"i", "n", "c", "o", "m", "e", "_", "s", "t", "a", "t", "e", "m", "e", "n", "t">>
FT_CF == <<"c", "a", "s", "h", "_", "f", "l", "o", "w">>
DotCsv == <<".", "c", "s", "v">>

\* Line 79.
report_types == <<"balance sheet", "income statement", "cash flow">>

\* Lines 93-98: the name part of each report type.
file_type(report_type) ==
    CASE report_type = "balance sheet" -> FT_BS
      [] report_type = "income statement" -> FT_IS
      [] report_type = "cash flow" -> FT_CF

\* f"{stock_code}_{file_type}_{current_date}.csv"
SinaFile(stock_code, report_type, date) ==
    stock_code \o <<"_">> \o file_type(report_type) \o <<"_">>
    \o date \o DotCsv

\* What one call of the provider gives: a table, an empty table or None, or
\* an exception (raised by the call, or by writing the table to its file).
Responses == {"data", "empty", "error"}

StockCode == <<"6", "0", "0", "0", "0", "0">>
Today == YearEnd(1)

InitDownload ==
    /\ program \in {"app", "script"}
    /\ responses \in [Range(report_types) -> Responses]
    /\ name_response \in {"name", "error"}
    /\ dpc = "start"
    /\ report_index = 0
    /\ successful_downloads = 0
    /\ report_data = {}
    /\ download_result = NoDownload
    /\ cache_files = {}
    /\ messages = {}
    /\ OnlyDownload

\* Lines 61-83: the stock's name, "unknown" with a warning when the provider
\* fails; then the counters of the loop.
DownloadStart ==
    /\ dpc = "start"
    /\ dpc' = "loop"
    /\ report_index' = 1
    /\ successful_downloads' = 0
    /\ report_data' = {}
    /\ messages' = IF name_response = "error"
                   THEN messages \cup {Msg("cannot get the stock name", {}, <<>>)}
                   ELSE messages
    /\ UNCHANGED <<program, responses, name_response, download_result,
                   cache_files>>
    /\ UNCHANGED exceptDownload

\* A faulty variant of AfterReportType: an exception ends the loop.
AbortOnError(index, df) ==
    IF df = "error" THEN Len(report_types) + 1 ELSE index + 1

\* The try and its except are inside the for: whatever the answer was, the
\* loop goes on with the next report type.
AfterReportType(index, df) == index + 1

\* Lines 84-115, one report type: an empty answer is warned about and
\* skipped, an exception is caught and shown, and a table is saved, stored
\* (by the app) and counted.
DownloadReportType ==
    /\ dpc = "loop"
    /\ report_index <= Len(report_types)
    /\ LET report_type == report_types[report_index]
           df == responses[report_type]
       IN  /\ messages' =
                 CASE df = "empty" ->
                        messages \cup {Msg("no data for the report type",
                                           {report_type}, <<>>)}
                   [] df = "error" ->
                        messages \cup {Msg("error while downloading the report type",
                                           {report_type}, <<>>)}
                   [] OTHER -> messages
           /\ cache_files' =
                 IF df = "data"
                 THEN cache_files
                      \cup {SinaFile(StockCode, report_type, Today)}
                 ELSE cache_files
           /\ report_data' = IF df = "data" /\ program = "app"
                             THEN report_data \cup {report_type}
                             ELSE report_data
           /\ successful_downloads' = IF df = "data"
                                      THEN successful_downloads + 1
                                      ELSE successful_downloads
    /\ report_index' =
          AfterReportType(report_index, responses[report_types[report_index]])
    /\ UNCHANGED <<program, responses, name_response, dpc, download_result>>
    /\ UNCHANGED exceptDownload

ReturnsReports(count) == [kind |-> "report_data", count |-> count]
ReturnsNoReports == [kind |-> "None", count |-> 0]
ScriptEnds == [kind |-> "printed", count |-> 0]

\* Lines 117-129 of the app: the success message with the count and the
\* stored reports, or the error message and None.
DownloadFinish ==
    /\ dpc = "loop"
    /\ program = "app"
    /\ report_index > Len(report_types)
    /\ dpc' = "done"
    /\ download_result' = IF successful_downloads > 0
                          THEN ReturnsReports(successful_downloads)
                          ELSE ReturnsNoReports
    /\ messages' =
          IF successful_downloads > 0
          THEN messages \cup {Msg("downloaded the financial reports", {}, <<>>)}
          ELSE messages \cup {Msg("no financial report could be downloaded",
                                  {}, <<>>)}
    /\ UNCHANGED <<program, responses, name_response, report_index,
                   successful_downloads, report_data, cache_files>>
    /\ UNCHANGED exceptDownload

\* Lines 100-111 of the script: "download complete", or the list of possible
\* causes; no count is printed and nothing is returned.
ScriptFinish ==
    /\ dpc = "loop"
    /\ program = "script"
    /\ report_index > Len(report_types)
    /\ dpc' = "done"
    /\ download_result' = ScriptEnds
    /\ messages' =
          IF successful_downloads > 0
          THEN messages \cup {Msg("download complete", {}, <<>>)}
          ELSE messages \cup {Msg("no financial report could be downloaded",
                                  {}, <<>>)}
    /\ UNCHANGED <<program, responses, name_response, report_index,
                   successful_downloads, report_data, cache_files>>
    /\ UNCHANGED exceptDownload

NextDownload ==
    \/ DownloadStart
    \/ DownloadReportType
    \/ DownloadFinish
    \/ ScriptFinish

SpecDownload == InitDownload /\ [][NextDownload]_vars


\* The report types the provider answered with a table, and the others.
Fetched == {t \in Range(report_types) : responses[t] = "data"}
Failed == Range(report_types) \ Fetched

\* C17: once the download has ended, every report type the provider
\* answered with a table has its file, whichever types failed before it;
\* the count is the number of those types, and it is the count the app shows
\* and the set of reports it returns; every failed type is named by a
\* message; and the app returns None exactly when the count is 0.
C17_FailureIsIsolated ==
    dpc = "done" =>
        /\ \A t \in Fetched : SinaFile(StockCode, t, Today) \in cache_files
        /\ successful_downloads = Cardinality(Fetched)
        /\ \A t \in Failed : \E m \in messages : m.names = {t}
        /\ program = "app" =>
              /\ download_result.kind \in {"report_data", "None"}
              /\ (download_result.kind = "None") <=> (Cardinality(Fetched) = 0)
              /\ download_result.kind = "report_data" =>
                    /\ download_result.count = Cardinality(Fetched)
                    /\ report_data = Fetched

\* The app's download has ended after the income statement raised an
\* exception: the balance sheet and the cash flow statement were fetched,
\* the count shown is 2 and the income statement is named as failed.
C17_Witness ==
    /\ dpc = "done"
    /\ program = "app"
    /\ responses["balance sheet"] = "data"
    /\ responses["income statement"] = "error"
    /\ responses["cash flow"] = "data"
    /\ download_result = ReturnsReports(2)
    /\ SinaFile(StockCode, "cash flow", Today) \in cache_files
    /\ Msg("error while downloading the report type", {"income statement"},
           <<>>) \in messages

-----------------------------------------------------------------------------
(* The cache directory: downloads of one stock from either provider on     *)
(* two days, then load_existing_reports (app_20250323155301, lines         *)
(* 131-204) or load_financial_statements of the analysis script            *)

\* f"{stock_code}_{file_type}_em_{current_date}.csv"  (lines 1110-1150)
EmFile(stock_code, report_type, date) ==
    stock_code \o <<"_">> \o file_type(report_type) \o <<"_", "e", "m", "_">>
    \o date \o DotCsv

\* The days on which the app is started, in their order.
DownloadDates == <<YearEnd(2), YearEnd(1)>>

\* The characters of the file names, by code point.
AsciiOrder ==
    <<".", "0", "1", "2", "3", "4", "5", "6", "7", "8", "9", "_", "a",
      "b", "c", "d", "e", "f", "g", "h", "i", "j", "k", "l", "m", "n",
      "o", "p", "q", "r", "s", "t", "u", "v", "w", "x", "y", "z">>

CodePoint(ch) == CHOOSE i \in 1..Len(AsciiOrder) : AsciiOrder[i] = ch

\* a < b, as Python compares two strings.
RECURSIVE PathLess(_, _)
PathLess(a, b) ==
    IF b = <<>> THEN FALSE
    ELSE IF a = <<>> THEN TRUE
    ELSE IF a[1] = b[1] THEN PathLess(Tail(a), Tail(b))
    ELSE CodePoint(a[1]) < CodePoint(b[1])

\* glob.glob(prefix + "*.csv")
Glob(files, prefix) ==
    {f \in files :
        /\ Len(f) >= Len(prefix) + Len(DotCsv)
        /\ SubSeq(f, 1, Len(prefix)) = prefix
        /\ SubSeq(f, Len(f) - Len(DotCsv) + 1, Len(f)) = DotCsv}

\* The two globs of one report type, lines 135-147; as sets, the lists being
\* used only for their last element in sorted order.
ReportFiles(files, stock_code, report_type) ==
    Glob(files, stock_code \o <<"_">> \o file_type(report_type) \o <<"_">>)
    \cup Glob(files, stock_code \o <<"_">> \o file_type(report_type)
                     \o <<"_", "e", "m", "_">>)

\* sorted(names)[-1]
LastSorted(names) ==
    CHOOSE f \in names : \A g \in names : g = f \/ PathLess(g, f)

\* '_em_' in name
IsEmName(name) ==
    \E i \in 1..(Len(name) - 3) : SubSeq(name, i, i + 3) = <<"_", "e", "m", "_">>

ReportsOf(bs_file, is_file, cf_file) ==
    [kind |-> "reports", bs_file |-> bs_file, is_file |-> is_file,
     cf_file |-> cf_file,
     is_em_format |-> IsEmName(bs_file) \/ IsEmName(is_file)]
LoadsNone == [kind |-> "None", bs_file |-> <<>>, is_file |-> <<>>,
              cf_file |-> <<>>, is_em_format |-> FALSE]

\* Lines 131-204: None without a balance sheet or an income statement;
\* otherwise the last name of each sorted list, the cash flow statement
\* being optional.
load_existing_reports(files, stock_code) ==
    LET bs_files == ReportFiles(files, stock_code, "balance sheet")
        is_files == ReportFiles(files, stock_code, "income statement")
        cf_files == ReportFiles(files, stock_code, "cash flow")
    IN  IF bs_files = {} \/ is_files = {} THEN LoadsNone
        ELSE ReportsOf(LastSorted(bs_files), LastSorted(is_files),
                       IF cf_files = {} THEN <<>> ELSE LastSorted(cf_files))

\* analyze_financial_data, lines 31-66, without a date: one glob per report
\* type, all three types required.
load_financial_statements(files, stock_code) ==
    LET bs_files == Glob(files, stock_code \o <<"_">>
                                \o file_type("balance sheet") \o <<"_">>)
        is_files == Glob(files, stock_code \o <<"_">>
                                \o file_type("income statement") \o <<"_">>)
        cf_files == Glob(files, stock_code \o <<"_">>
                                \o file_type("cash flow") \o <<"_">>)
    IN  IF bs_files = {} \/ is_files = {} \/ cf_files = {} THEN LoadsNone
        ELSE [ReportsOf(LastSorted(bs_files), LastSorted(is_files),
                        LastSorted(cf_files)) EXCEPT !.is_em_format = FALSE]

InitCache ==
    /\ cache_files = {}
    /\ current_date = DownloadDates[1]
    /\ cachepc = "open"
    /\ loaded = NotLoaded
    /\ messages = {}
    /\ OnlyCache

\* download_financial_reports, as the directory sees it: a file of today's
\* date for every report type the provider answered with a table.
SinaDownload ==
    /\ cachepc = "open"
    /\ \E fetched \in SUBSET Range(report_types) :
          cache_files' = cache_files
             \cup {SinaFile(StockCode, t, current_date) : t \in fetched}
    /\ UNCHANGED <<current_date, cachepc, loaded, messages>>
    /\ UNCHANGED exceptCache

\* download_financial_reports_em, as the directory sees it.
EmDownload ==
    /\ cachepc = "open"
    /\ \E fetched \in SUBSET Range(report_types) :
          cache_files' = cache_files
             \cup {EmFile(StockCode, t, current_date) : t \in fetched}
    /\ UNCHANGED <<current_date, cachepc, loaded, messages>>
    /\ UNCHANGED exceptCache

\* The app is started again on the next day: current_date is taken from the
\* clock when the module is loaded (line 27).
NextDay ==
    /\ cachepc = "open"
    /\ \E k \in 1..(Len(DownloadDates) - 1) :
          /\ current_date = DownloadDates[k]
          /\ current_date' = DownloadDates[k + 1]
    /\ UNCHANGED <<cache_files, cachepc, loaded, messages>>
    /\ UNCHANGED exceptCache

LoadExistingReports ==
    /\ cachepc = "open"
    /\ cachepc' = "loaded"
    /\ loaded' = load_existing_reports(cache_files, StockCode)
    /\ messages' =
          IF load_existing_reports(cache_files, StockCode).kind = "reports"
          THEN messages \cup {Msg("loaded the cached financial data", {}, <<>>)}
          ELSE messages
    /\ UNCHANGED <<cache_files, current_date>>
    /\ UNCHANGED exceptCache

LoadFinancialStatements ==
    /\ cachepc = "open"
    /\ cachepc' = "loaded by the script"
    /\ loaded' = load_financial_statements(cache_files, StockCode)
    /\ messages' =
          IF load_financial_statements(cache_files, StockCode).kind = "None"
          THEN messages \cup {Msg("the complete statements were not found",
                                  {}, <<>>)}
          ELSE messages
    /\ UNCHANGED <<cache_files, current_date>>
    /\ UNCHANGED exceptCache

\* text.split('_')
RECURSIVE SplitAtUnderscores(_)
SplitAtUnderscores(text) ==
    LET cuts == {i \in 1..Len(text) : text[i] = "_"}
    IN  IF cuts = {} THEN <<text>>
        ELSE LET cut == CHOOSE i \in cuts : \A k \in cuts : i <= k
             IN  <<SubSeq(text, 1, cut - 1)>>
                 \o SplitAtUnderscores(SubSeq(text, cut + 1, Len(text)))

\* text.replace('.csv', '')
RECURSIVE WithoutDotCsv(_)
WithoutDotCsv(text) ==
    IF text = <<>> THEN <<>>
    ELSE IF Len(text) >= Len(DotCsv) /\ SubSeq(text, 1, Len(DotCsv)) = DotCsv
    THEN WithoutDotCsv(SubSeq(text, Len(DotCsv) + 1, Len(text)))
    ELSE <<text[1]>> \o WithoutDotCsv(Tail(text))

\* glob.glob(os.path.join(data_dir, "*_balance_sheet_*.csv")), line 16
BalanceSheetFiles(files) ==
    {f \in files :
        /\ Contains(f, <<"_">> \o FT_BS \o <<"_">>)
        /\ Len(f) >= Len(DotCsv)
        /\ SubSeq(f, Len(f) - Len(DotCsv) + 1, Len(f)) = DotCsv}

\* list_available_stocks(), lines 14-29: parts[0] is the stock code and
\* parts[2] the date; of the dates of one stock the greatest is kept.
list_available_stocks(files) ==
    LET listed == {SplitAtUnderscores(f) : f \in BalanceSheetFiles(files)}
        pairs == {[code |-> parts[1], date |-> WithoutDotCsv(parts[3])] :
                     parts \in {ps \in listed : Len(ps) >= 3}}
    IN  {pair \in pairs :
            \A other \in pairs :
                other.code = pair.code =>
                   other.date = pair.date \/ PathLess(other.date, pair.date)}

\* load_financial_statements(stock_code, date_str), lines 47-72: the three
\* files named by the date, all of them required.
load_financial_statements_of(files, stock_code, date_str) ==
    LET bs_file == SinaFile(stock_code, "balance sheet", date_str)
        is_file == SinaFile(stock_code, "income statement", date_str)
        cf_file == SinaFile(stock_code, "cash flow", date_str)
    IN  IF bs_file \notin files \/ is_file \notin files \/ cf_file \notin files
        THEN LoadsNone
        ELSE [ReportsOf(bs_file, is_file, cf_file) EXCEPT !.is_em_format = FALSE]

\* The analysis script, lines 426-464: the stocks are listed, one of them
\* is chosen, and its statements are loaded with the listed date.
AnalyseListedStock ==
    /\ cachepc = "open"
    /\ available_stocks' = list_available_stocks(cache_files)
    /\ IF list_available_stocks(cache_files) = {}
       THEN /\ cachepc' = "nothing listed"
            /\ loaded' = loaded
            /\ messages' = messages
                  \cup {Msg("no downloaded financial data found", {}, <<>>)}
       ELSE \E choice \in list_available_stocks(cache_files) :
               LET found == load_financial_statements_of(
                                cache_files, choice.code, choice.date)
               IN  /\ cachepc' = "analysed"
                   /\ loaded' = found
                   /\ messages' =
                         IF found.kind = "None"
                         THEN messages
                              \cup {Msg("the complete statements were not found",
                                        {}, <<>>)}
                         ELSE messages
    /\ UNCHANGED <<cache_files, current_date>>
    /\ UNCHANGED exceptScript

NextCache ==
    \/ SinaDownload
    \/ EmDownload
    \/ NextDay
    \/ LoadExistingReports
    \/ LoadFinancialStatements
    \/ AnalyseListedStock

SpecCache == InitCache /\ [][NextCache]_vars

\* The download date a file name carries: the eight characters before
\* '.csv', as a number.
DownloadDateOf(name) ==
    NatOf(SubSeq(name, Len(name) - Len(DotCsv) - 7, Len(name) - Len(DotCsv)))

\* The cached files of one report type, from either provider.
CachedFilesOf(report_type) ==
    {f \in cache_files :
        \E d \in Range(DownloadDates) :
            f \in {SinaFile(StockCode, report_type, d),
                   EmFile(StockCode, report_type, d)}}

\* C18: the file load_existing_reports has read for a report type carries
\* the most recent download date among the cached files of that type,
\* whichever provider they came from.
C18_LatestDownloadIsLoaded ==
    (cachepc = "loaded" /\ loaded.kind = "reports") =>
        /\ \A f \in CachedFilesOf("balance sheet") :
              DownloadDateOf(f) <= DownloadDateOf(loaded.bs_file)
        /\ \A f \in CachedFilesOf("income statement") :
              DownloadDateOf(f) <= DownloadDateOf(loaded.is_file)
        /\ \A f \in CachedFilesOf("cash flow") :
              DownloadDateOf(f) <= DownloadDateOf(loaded.cf_file)

-----------------------------------------------------------------------------
(* Row lookup, continued *)

\* The four substrings that name total assets.
total_asset_tier ==
    << <<"zong", "zi", "chan">>, <<"zi", "chan", "zong", "ji">>,
       <<"zi", "chan", "zong", "e">>, <<"zi", "chan", "he", "ji">> >>

\* C21: in get_financial_ratios, whenever a balance-sheet label contains one
\* of zongzichan, zichanzongji, zichanzonge, zichanheji, the total-assets
\* row used is the first such row; a title row zichanfuzhaibiao or a row
\* that only contains zichan is used only when no row contains one of the
\* four.
C21_AssetTiersInOrder ==
    (ran = "ratios" /\ located.found) =>
        LET specific == RowSet(bs_labels, total_asset_tier)
        IN  specific # {} => located.asset = Lowest(specific)


\* C22: in get_financial_metrics (app_20250323223652) the substrings
\* yingyeshouru and yingyezongshouru are alternatives of one group: among the
\* rows whose label contains either, the revenue row used is the first in
\* table order (stated for the runs in which a revenue row and a profit row
\* were found).
C22_RevenueGroupFirstRow ==
    (ran = "metrics" /\ located.found) =>
        LET group == RowSet(is_labels, SubSeq(metrics_revenue_patterns, 1, 2))
        IN  group # {} => located.revenue = Lowest(group)


-----------------------------------------------------------------------------
(* The normalizer, continued: the long-format branch as a pivot            *)

\* The rows of a long table that carry the item and whose date, cut to its
\* eight-character form, is the period header.
RowsOfItemAndPeriod(df, item, header) ==
    {i \in 1..Len(df.data) :
        /\ EqCell(df.data[i][ColIndex(df, ItemCol(df))], item)
        /\ DateStr(df.data[i][ColIndex(df, DateCol(df))]) = header}

\* Every value of the date column is a date, written with or without dashes.
HoldsDates(df) ==
    \A i \in 1..Len(df.data) :
        IsDateText(df.data[i][ColIndex(df, DateCol(df))])

\* C23: for a long table of dated rows with a column headed as the item
\* column and a value column, the result
\* has one row per distinct item in order of first appearance and one period
\* column per distinct date in its eight-character form; the cell of an item
\* and a period is the first value column's value in the first input row of
\* that item and that date, and is missing when there is no such row.
C23_LongTableIsPivoted ==
    (/\ npc # "raw"
     /\ ~IsEmpty(raw_df)
     /\ ~norm1.exc
     /\ date_cols(raw_df) # <<>>
     /\ item_cols(raw_df) # <<>>
     /\ ValueCols(raw_df) # <<>>
     /\ HoldsDates(raw_df))
    => LET df == raw_df
           items == Unique(Column(df, ColIndex(df, ItemCol(df))))
           periods == {DateStr(df.data[i][ColIndex(df, DateCol(df))]) :
                          i \in 1..Len(df.data)}
           vc == ColIndex(df, ValueCols(df)[1])
       IN  /\ Column(norm1, 1) = items
           /\ Len(norm1.columns) = 1 + Cardinality(periods)
           /\ {norm1.columns[j] : j \in 2..Len(norm1.columns)} = periods
           /\ \A r \in 1..Len(norm1.data) : \A j \in 2..Len(norm1.columns) :
                 LET hits == RowsOfItemAndPeriod(df, items[r],
                                                 norm1.columns[j])
                 IN  norm1.data[r][j] =
                        IF hits = {} THEN NaN
                        ELSE df.data[Lowest(hits)][vc]

-----------------------------------------------------------------------------
(* get_financial_metrics (app_20250323155301), continued: the periods kept *)

\* The cell is present and float() accepts it.
CoercesToNumber(value) == NotNa(value) /\ Float155(value) # ValueError

\* C24: get_financial_metrics (app_20250323155301) keeps every period whose
\* revenue cell and net-profit cell both coerce to a number, a value of
\* exactly 0 included (the table has fewer periods than the cap).
C24_NumericPeriodsKept ==
    (m155pc = "returned" /\ Metrics155Rows(Labels155(income_table)).found) =>
        LET df == income_table
            found == Metrics155Rows(Labels155(df))
        IN  \A j \in 2..Len(df.columns) :
               (/\ CoercesToNumber(df.data[found.revenue][j])
                /\ CoercesToNumber(df.data[found.profit][j]))
               => /\ metrics155_result.kind = "frame"
                  /\ \E k \in 1..Len(metrics155_result.data) :
                        metrics155_result.data[k].date = PyStr(df.columns[j])

-----------------------------------------------------------------------------
(* get_financial_metrics (app_20250323223652), continued: coercion *)

\* The cell is present and get_financial_ratios reads a number in it.
ReadAsNumber(value) == NotNa(value) /\ ToFloat(value).kind = "float"

\* C25: get_financial_metrics (app_20250323223652) reads a cell as
\* get_financial_ratios does: for a table with one column per period in
\* which both rows are found, every period whose revenue and net-profit
\* cells are numbers once the thousands separators are removed ('1,234.50'
\* is 1234.50) has an entry in the series, holding those numbers.
C25_MetricsCoerceLikeRatios ==
    LET df == income_table
        pc == ProjectColumn(WithTextFirstColumn(WithTextHeaders(df)))
        tbl == pc.table
        found == MetricsRows(TextsOf(tbl, pc.col))
    IN  (/\ mpc # "start"
         /\ ~IsEmpty(df)
         /\ HasStrAccessor(tbl, pc.col)
         /\ found.revenue # 0 /\ found.profit # 0
         /\ ColIndex(tbl, H_riqi) = 0)
        => \A j \in 1..Len(tbl.columns) :
              (/\ j # pc.col
               /\ ReadAsNumber(tbl.data[found.revenue][j])
               /\ ReadAsNumber(tbl.data[found.profit][j]))
              => /\ metrics_result.kind = "series"
                 /\ \E k \in 1..Len(metrics_result.series) :
                       /\ metrics_result.series[k].date =
                             ToDatetime(tbl.columns[j])
                       /\ metrics_result.series[k].revenue =
                             ToFloat(tbl.data[found.revenue][j])
                       /\ metrics_result.series[k].profit =
                             ToFloat(tbl.data[found.profit][j])

-----------------------------------------------------------------------------
(* download_financial_reports_em (app_20250323223652, lines 1027-1268)     *)

\* The provider functions tried for one statement, in the order of the
\* nested try blocks (lines 1057-1083, 1099-1125, 1141-1157).
em_sources(report_type) ==
    CASE report_type = "balance sheet" ->
           <<"stock_balance_sheet_by_report_em", "stock_financial_abstract",
             "stock_financial_report_sina">>
      [] report_type = "income statement" ->
           <<"stock_profit_sheet_by_report_em", "stock_financial_abstract",
             "stock_financial_report_sina">>
      [] report_type = "cash flow" ->
           <<"stock_cash_flow_sheet_by_report_em",
             "stock_financial_report_sina">>

\* Every call the function can make: a statement and a provider function.
EmCalls ==
    UNION {{<<t, em_sources(t)[k]>> : k \in 1..Len(em_sources(t))} :
              t \in Range(report_types)}

NoTables == [t \in Range(report_types) |-> "None"]

InitEm ==
    /\ program = "app"
    /\ responses \in [EmCalls -> Responses]
    /\ name_response \in {"name", "error"}
    /\ dpc = "start"
    /\ report_index = 0
    /\ successful_downloads = 0
    /\ report_data = {}
    /\ download_result = NoDownload
    /\ em_source = 0
    /\ em_calls = <<>>
    /\ em_tables = NoTables
    /\ cache_files = {}
    /\ messages = {}
    /\ OnlyEm

\* Lines 1033-1055: the stock's name, "unknown" with a warning when the
\* provider fails; then the first statement.
EmStart ==
    /\ dpc = "start"
    /\ dpc' = "chain"
    /\ report_index' = 1
    /\ em_source' = 1
    /\ messages' = IF name_response = "error"
                   THEN messages \cup {Msg("cannot get the stock name", {}, <<>>)}
                   ELSE messages
    /\ UNCHANGED <<program, responses, name_response, successful_downloads,
                   report_data, download_result, em_calls, em_tables,
                   cache_files>>
    /\ UNCHANGED exceptEm

\* A faulty variant of NextInChain: an empty answer is taken for a table and
\* ends the chain.
NextAfterAnyAnswer(answer, source, n) ==
    IF answer # "error" \/ source = n THEN 0 ELSE source + 1

\* The position of the next source to try, 0 when the chain of the
\* statement ends: an answer that is None or empty raises ValueError inside
\* the try (lines 1061-1062), and the except tries the next source.
NextInChain(answer, source, n) ==
    IF answer = "data" \/ source = n THEN 0 ELSE source + 1

\* One call of one provider function (one try block of lines 1056-1164).
EmCallSource ==
    /\ dpc = "chain"
    /\ report_index <= Len(report_types)
    /\ LET report_type == report_types[report_index]
           sources == em_sources(report_type)
           source == sources[em_source]
           answer == responses[<<report_type, source>>]
           next == NextInChain(answer, em_source, Len(sources))
       IN  /\ em_calls' = Append(em_calls, <<report_type, source>>)
           /\ em_tables' = IF answer = "data"
                           THEN [em_tables EXCEPT ![report_type] = source]
                           ELSE em_tables
           /\ em_source' = IF next = 0 THEN 1 ELSE next
           /\ report_index' = IF next = 0 THEN report_index + 1
                              ELSE report_index
           /\ messages' =
                 CASE answer = "data" ->
                        messages \cup {Msg("obtained the statement",
                                           {report_type}, <<>>)}
                   [] em_source = Len(sources) ->
                        messages \cup {Msg("all methods failed",
                                           {report_type}, <<>>)}
                   [] OTHER ->
                        messages \cup {Msg("the method failed",
                                           {report_type, source}, <<>>)}
    /\ UNCHANGED <<program, responses, name_response, dpc,
                   successful_downloads, report_data, download_result,
                   cache_files>>
    /\ UNCHANGED exceptEm

\* Lines 1166-1262: every statement obtained is written to its file and
\* stored; the success message and the reports, or the error and None.
EmFinish ==
    /\ dpc = "chain"
    /\ report_index > Len(report_types)
    /\ LET obtained == {t \in Range(report_types) : em_tables[t] # "None"}
       IN  /\ cache_files' = cache_files
                 \cup {EmFile(StockCode, t, Today) : t \in obtained}
           /\ report_data' = obtained
           /\ successful_downloads' = Cardinality(obtained)
           /\ download_result' = IF obtained # {}
                                 THEN ReturnsReports(Cardinality(obtained))
                                 ELSE ReturnsNoReports
           /\ messages' =
                 IF obtained # {}
                 THEN messages \cup {Msg("downloaded the financial reports",
                                         {}, <<>>)}
                 ELSE messages \cup {Msg("no financial report could be downloaded",
                                         {}, <<>>)}
    /\ dpc' = "done"
    /\ UNCHANGED <<program, responses, name_response, report_index,
                   em_source, em_calls, em_tables>>
    /\ UNCHANGED exceptEm

NextEm == EmStart \/ EmCallSource \/ EmFinish

SpecEm == InitEm /\ [][NextEm]_vars

\* The sources of a statement up to the first that answers with a table,
\* or all of them when none does.
TriedSources(report_type) ==
    LET sources == em_sources(report_type)
        hits == {k \in 1..Len(sources) :
                    responses[<<report_type, sources[k]>>] = "data"}
    IN  IF hits = {} THEN sources ELSE SubSeq(sources, 1, Lowest(hits))

\* The calls made for one statement, in their order.
CallsFor(report_type) ==
    LET IsFor(call) == call[1] = report_type
        made == SelectSeq(em_calls, IsFor)
    IN  [k \in 1..Len(made) |-> made[k][2]]

\* C26: in download_financial_reports_em the sources of a statement are
\* called in their fixed order; a source is called only after every earlier
\* one raised or answered empty, none is called after one answered with a
\* table, the table kept is the answer of the first source that gave one,
\* and the calls made for a statement depend on the answers for that
\* statement alone.
C26_FallbackChain ==
    /\ dpc \in {"chain", "done"} =>
          \A t \in Range(report_types) :
             /\ Len(CallsFor(t)) <= Len(TriedSources(t))
             /\ CallsFor(t) = SubSeq(TriedSources(t), 1, Len(CallsFor(t)))
    /\ dpc = "done" =>
          \A t \in Range(report_types) :
             /\ CallsFor(t) = TriedSources(t)
             /\ em_tables[t] =
                   IF responses[<<t, TriedSources(t)[Len(TriedSources(t))]>>]
                         = "data"
                   THEN TriedSources(t)[Len(TriedSources(t))]
                   ELSE "None"

\* The function returned after the balance sheet came from its third source
\* (the first raised, the second answered empty), no source gave an income
\* statement, and the cash flow statement came from its first source.
C26_Witness ==
    /\ dpc = "done"
    /\ responses[<<"balance sheet", "stock_balance_sheet_by_report_em">>]
          = "error"
    /\ responses[<<"balance sheet", "stock_financial_abstract">>] = "empty"
    /\ em_tables["balance sheet"] = "stock_financial_report_sina"
    /\ em_tables["income statement"] = "None"
    /\ em_tables["cash flow"] = "stock_cash_flow_sheet_by_report_em"
    /\ Len(em_calls) = 7

-----------------------------------------------------------------------------
(* The page of app_20250323223652 (lines 1841-1912): the download button,  *)
(* the three download functions as the file system sees them, and          *)
(* load_existing_reports (lines 137-182)                                   *)

\* Line 18.
data_dir == <<"f", "i", "n", "a", "n", "c", "i", "a", "l", "_", "d", "a", "t", "a">>

\* os.path.join(data_dir, name)
DataPath(name) == data_dir \o <<"/">> \o name

\* reports_dir = f"reports/{stock_code}"
reports_dir(stock_code) ==
    <<"r", "e", "p", "o", "r", "t", "s", "/">> \o stock_code

\* f"{reports_dir}/{file_type}.csv" and f"{reports_dir}/{file_type}_raw.csv"
ReportPath(stock_code, report_type) ==
    reports_dir(stock_code) \o <<"/">> \o file_type(report_type) \o DotCsv
RawReportPath(stock_code, report_type) ==
    reports_dir(stock_code) \o <<"/">> \o file_type(report_type)
    \o <<"_", "r", "a", "w">> \o DotCsv

\* Lines 1863-1866.
DataSources == {"sina", "em quarterly", "em annual"}

\* What a download function leaves behind: the paths it wrote, the
\* statements it obtained, and what it returned.
Downloaded(paths, obtained, result) ==
    [paths |-> paths, obtained |-> obtained, result |-> result]

\* download_financial_reports (lines 84-129) for the report types the
\* provider answered with a table.
SavedBySina(stock_code, date, fetched) ==
    Downloaded({DataPath(SinaFile(stock_code, t, date)) : t \in fetched},
               fetched,
               IF fetched # {} THEN "report_data" ELSE "None")

\* download_financial_reports_em (lines 1166-1262) for the statements of
\* which a source gave a table.
SavedByEm(stock_code, date, fetched) ==
    Downloaded({DataPath(EmFile(stock_code, t, date)) : t \in fetched},
               fetched,
               IF fetched # {} THEN "report_data" ELSE "None")

\* What the chain of annual sources gives for one statement: nothing, a
\* table with a REPORT_DATE column, or a table without one.
AnnualAnswers == {"none", "dated", "undated"}

\* download_annual_reports_em, lines 1677-1835: the directory is created;
\* a table with REPORT_DATE is written raw and transposed, one without it
\* raw only; when no statement was obtained the sina provider is asked and
\* its tables are written under the transposed names; True when a
\* statement was obtained from either.
SavedByAnnual(stock_code, answers, fallback) ==
    LET obtained == {t \in Range(report_types) : answers[t] # "none"}
        dated == {t \in obtained : answers[t] = "dated"}
        from_sina == IF obtained = {} THEN fallback ELSE {}
    IN  Downloaded({reports_dir(stock_code)}
                   \cup {RawReportPath(stock_code, t) : t \in obtained}
                   \cup {ReportPath(stock_code, t) : t \in dated \cup from_sina},
                   obtained \cup from_sina,
                   IF obtained \cup from_sina # {} THEN "True" ELSE "False")

\* load_existing_reports(stock_code), lines 137-182: the two files of the
\* reports directory, None for one that does not exist.
load_existing_reports223(files, stock_code) ==
    IF reports_dir(stock_code) \notin files THEN NoReports
    ELSE [balance_sheet |->
              IF ReportPath(stock_code, "balance sheet") \in files
              THEN ReportPath(stock_code, "balance sheet") ELSE <<>>,
          income_statement |->
              IF ReportPath(stock_code, "income statement") \in files
              THEN ReportPath(stock_code, "income statement") ELSE <<>>]

InitApp ==
    /\ data_source \in DataSources
    /\ apc = "sidebar"
    /\ app_result = "none"
    /\ app_obtained = {}
    /\ app_reports = NoReports
    /\ cache_files = {}
    /\ messages = {}
    /\ OnlyApp

\* Lines 1863-1866: another data source is chosen.
ChooseDataSource ==
    /\ apc = "sidebar"
    /\ \E source \in DataSources \ {data_source} : data_source' = source
    /\ UNCHANGED <<apc, app_result, app_obtained, app_reports, cache_files,
                   messages>>
    /\ UNCHANGED exceptApp

\* The message of line 1890 is shown whatever the download function
\* returned: its value is not looked at.
MessagesAfterDownload(result) ==
    {Msg("financial reports downloaded and saved", {}, <<>>)}

\* Lines 1872-1894: the button "download the financial reports" with a
\* valid stock code: the download function of the chosen data source, then
\* the success message.
PressDownload ==
    /\ apc = "sidebar"
    /\ \E done \in
          CASE data_source = "sina" ->
                 {SavedBySina(StockCode, Today, fetched) :
                     fetched \in SUBSET Range(report_types)}
            [] data_source = "em quarterly" ->
                 {SavedByEm(StockCode, Today, fetched) :
                     fetched \in SUBSET Range(report_types)}
            [] data_source = "em annual" ->
                 {SavedByAnnual(StockCode, answers, fallback) :
                     answers \in [Range(report_types) -> AnnualAnswers],
                     fallback \in SUBSET Range(report_types)} :
          /\ cache_files' = cache_files \cup done.paths
          /\ app_result' = done.result
          /\ app_obtained' = done.obtained
          /\ messages' = messages \cup MessagesAfterDownload(done.result)
    /\ apc' = "downloaded"
    /\ UNCHANGED <<data_source, app_reports>>
    /\ UNCHANGED exceptApp

\* Lines 1896-1912: the main area, in the run of the button or in a run
\* without it: load_existing_reports, and the warning when a statement is
\* missing.
LoadReports ==
    /\ apc \in {"sidebar", "downloaded"}
    /\ LET found == load_existing_reports223(cache_files, StockCode)
       IN  /\ app_reports' = found
           /\ IF found.balance_sheet = <<>> \/ found.income_statement = <<>>
              THEN /\ apc' = "not found"
                   /\ messages' = messages
                         \cup {Msg("no downloaded reports found", {}, <<>>)}
              ELSE /\ apc' = "loaded"
                   /\ messages' = messages
    /\ UNCHANGED <<data_source, app_result, app_obtained, cache_files>>
    /\ UNCHANGED exceptApp

\* The page runs again: what the last run showed is gone, the files stay.
RunAgain ==
    /\ apc \in {"loaded", "not found"}
    /\ apc' = "sidebar"
    /\ app_result' = "none"
    /\ app_obtained' = {}
    /\ app_reports' = NoReports
    /\ messages' = {}
    /\ UNCHANGED <<data_source, cache_files>>
    /\ UNCHANGED exceptApp

NextApp == ChooseDataSource \/ PressDownload \/ LoadReports \/ RunAgain

SpecApp == InitApp /\ [][NextApp]_vars

\* C27: after a download that reported success (report data returned, or
\* True) and obtained the balance sheet and the income statement,
\* load_existing_reports of the same stock finds both, whichever of the
\* three data sources was chosen.
C27_DownloadThenLoad ==
    (/\ apc \in {"loaded", "not found"}
     /\ app_result \in {"report_data", "True"}
     /\ {"balance sheet", "income statement"} \subseteq app_obtained)
    => /\ app_reports.balance_sheet # <<>>
       /\ app_reports.income_statement # <<>>

\* C29: the success message of the download button is on the page only if
\* the download function obtained at least one statement; when the function
\* reports failure (None or False) the message is not shown.
C29_SuccessOnlyAfterData ==
    (apc # "sidebar"
     /\ Msg("financial reports downloaded and saved", {}, <<>>) \in messages)
    => /\ app_result \in {"report_data", "True"}
       /\ app_obtained # {}

-----------------------------------------------------------------------------
(* The analysis script, continued: the listed stocks *)

\* The download dates of the balance-sheet files of one stock.
BalanceSheetDatesOf(stock_code) ==
    {DownloadDateOf(f) :
        f \in {g \in BalanceSheetFiles(cache_files) :
                  SubSeq(g, 1, Len(stock_code) + 1) = stock_code \o <<"_">>}}

\* C28: every (stock code, date) pair list_available_stocks produces holds
\* the latest download date of that stock's balance-sheet files, and
\* load_financial_statements called with the pair loads the three
\* statements whenever the three files of that date exist.
C28_ListedPairLoads ==
    cachepc = "analysed" =>
        /\ \A pair \in available_stocks :
              \E d \in BalanceSheetDatesOf(pair.code) :
                 /\ pair.date = NatStr(d)
                 /\ \A e \in BalanceSheetDatesOf(pair.code) : e <= d
        /\ \A d \in Range(DownloadDates) :
              (/\ \A t \in Range(report_types) :
                     SinaFile(StockCode, t, d) \in cache_files
               /\ \A e \in BalanceSheetDatesOf(StockCode) : e <= NatOf(d))
              => loaded.kind = "reports"

-----------------------------------------------------------------------------
(* realtime_stock_monitor: the histories of the monitoring loop            *)
(* (lines 277-340 and 565-660)                                             *)

\* The display window (display_minutes, line 30) and the length of a
\* session, both counted in update intervals.
DisplayWindow == 3
MaxTime == 7

\* get_historical_data() for one history, lines 277-289: a new empty frame
\* when the button was pressed in the run that is executing.
get_historical_data(history, cleared) ==
    IF cleared THEN <<>> ELSE history

\* update_historical_data for one history, lines 292-340: the sample is
\* appended to what get_historical_data gives, and the samples older than
\* the display window are dropped.
update_historical_data(history, cleared, time) ==
    LET InWindow(timestamp) == timestamp >= time - DisplayWindow
    IN  SelectSeq(Append(get_historical_data(history, cleared), time),
                  InWindow)

\* The page is opened: the checkbox is ticked (line 33) or unticked.
InitMonitor ==
    /\ is_running \in BOOLEAN
    /\ clear_data = FALSE
    /\ price_history = <<>>
    /\ flow_history = <<>>
    /\ now = 0
    /\ updated_at = -1
    /\ clear_pressed_at = -1
    /\ iterations_after_clear = 0
    /\ OnlyMonitor

\* One iteration of `while is_running` (lines 586-655): a price sample and a
\* flow sample stamped with the clock, update_historical_data, the charts,
\* and the sleep of one update interval.
MonitorIteration ==
    /\ is_running
    /\ now < MaxTime
    /\ price_history' = update_historical_data(price_history, clear_data, now)
    /\ flow_history' = update_historical_data(flow_history, clear_data, now)
    /\ updated_at' = now
    /\ iterations_after_clear' =
          IF clear_pressed_at >= 0 THEN iterations_after_clear + 1
          ELSE iterations_after_clear
    /\ now' = now + 1
    /\ UNCHANGED <<is_running, clear_data, clear_pressed_at>>
    /\ UNCHANGED exceptMonitor

\* The button "clear history" is pressed: the script starts again and reads
\* the button as True for the whole of the new run (line 34).
PressClear ==
    /\ now < MaxTime
    /\ clear_data' = TRUE
    /\ clear_pressed_at' = now
    /\ iterations_after_clear' = 0
    /\ UNCHANGED <<is_running, price_history, flow_history, now, updated_at>>
    /\ UNCHANGED exceptMonitor

\* The checkbox is changed: the script starts again, and the button reads
\* False in the new run.
ToggleRunning ==
    /\ now < MaxTime
    /\ is_running' = ~is_running
    /\ clear_data' = FALSE
    /\ UNCHANGED <<price_history, flow_history, now, updated_at,
                   clear_pressed_at, iterations_after_clear>>
    /\ UNCHANGED exceptMonitor

\* An update interval passes while the loop is not running.
TimePasses ==
    /\ ~is_running
    /\ now < MaxTime
    /\ now' = now + 1
    /\ UNCHANGED <<is_running, clear_data, price_history, flow_history,
                   updated_at, clear_pressed_at, iterations_after_clear>>
    /\ UNCHANGED exceptMonitor

NextMonitor == MonitorIteration \/ PressClear \/ ToggleRunning \/ TimePasses

SpecMonitor == InitMonitor /\ [][NextMonitor]_vars

\* C30: after "clear history" was pressed, each iteration of the loop
\* appends one sample to each history, so that after k iterations that
\* lie inside the display window each history holds k samples; and after
\* every update no retained sample is older than the display window.
C30_ClearThenOnePerIteration ==
    /\ (/\ clear_pressed_at >= 0
        /\ iterations_after_clear >= 1
        /\ updated_at - clear_pressed_at <= DisplayWindow)
       => /\ Len(price_history) = iterations_after_clear
          /\ Len(flow_history) = iterations_after_clear
    /\ updated_at >= 0 =>
          /\ \A i \in 1..Len(price_history) :
                price_history[i] >= updated_at - DisplayWindow
          /\ \A i \in 1..Len(flow_history) :
                flow_history[i] >= updated_at - DisplayWindow
====
